---- MODULE Spec2Model ----
(***************************************************************************)
(* Application launcher skill (Linux skill in src/__init__.py, macOS skill *)
(* and controller in src/skill_mac_application_launcher/).                 *)
(*                                                                         *)
(* Strings are TLA+ strings; dictionaries are sequences of <<key, value>>  *)
(* pairs with unique keys, in insertion order (a Python dict).             *)
(***************************************************************************)
EXTENDS Integers, Sequences, FiniteSets, TLC

\* ------------------------------------------------------------------------
\* State
\* ------------------------------------------------------------------------

VARIABLES
  platform,      \* "linux": ApplicationLauncherSkill, "mac": MacApplicationLauncherSkill
  configured,    \* user_commands as the settings file gives them
  self_settings, \* self.settings
  self_tool,     \* self.wmctrl (linux) / controller.osascript (mac): a path or None
  manifests,     \* the search directories on the disk, with the manifests in them
  installed,     \* the application records the catalog builder yields from the disk
  self_applist,  \* self.applist (linux)
  ctl,           \* the macOS controller's _app_cache and _cache_build_failed, and how
                 \* many times _build_app_aliases has been called
  built,         \* the mappings the alias builder has returned so far, oldest first
  op,            \* the last operation on the alias index
  pc,            \* "idle", "returned" (handle_fallback is over), "emitted"
                 \* (async_prompt in flight), "switch", "launch", "launch_app",
                 \* "done" (handle_async_prompt is over)
  msg_name,      \* the intent of the request being handled
  msg_app,       \* its application name
  env_procs,     \* the processes running while the fallback handler runs
  env_wins,      \* the windows open while the handler runs (its last look at them)
  switch,        \* handle_async_prompt's local switch
  launch,        \* handle_async_prompt's local launch
  attempt,       \* the loop counter of the running for loop
  unanswered,    \* how many times in a row, up to its last answer, confirm_switch got None
  events,        \* what the request has caused so far, in order
  ret            \* what the last handler returned (or the exception it raised)

vars ==
  <<platform, configured, self_settings, self_tool, manifests, installed, self_applist, ctl,
    built, op, pc, msg_name, msg_app, env_procs, env_wins, switch, launch, attempt, unanswered,
    events, ret>>

\* ------------------------------------------------------------------------
\* Python values
\* ------------------------------------------------------------------------

\* Python's None / a missing key
None == "<None>"

\* ------------------------------------------------------------------------
\* str methods
\* ------------------------------------------------------------------------

Chr(s, i) == SubSeq(s, i, i)

\* the upper-case letter of each lower-case letter, and the converse
UpperOf ==
  [
    a |-> "A", b |-> "B", c |-> "C", d |-> "D", e |-> "E", f |-> "F", g |-> "G", h |-> "H", i |-> "I",
    j |-> "J", k |-> "K", l |-> "L", m |-> "M", n |-> "N", o |-> "O", p |-> "P", q |-> "Q", r |-> "R",
    s |-> "S", t |-> "T", u |-> "U", v |-> "V", w |-> "W", x |-> "X", y |-> "Y", z |-> "Z" ]

LowerOf ==
  [
    A |-> "a", B |-> "b", C |-> "c", D |-> "d", E |-> "e", F |-> "f", G |-> "g", H |-> "h", I |-> "i",
    J |-> "j", K |-> "k", L |-> "l", M |-> "m", N |-> "n", O |-> "o", P |-> "p", Q |-> "q", R |-> "r",
    S |-> "s", T |-> "t", U |-> "u", V |-> "v", W |-> "w", X |-> "x", Y |-> "y", Z |-> "z" ]

IsAlpha(c) == c \in DOMAIN UpperOf \/ c \in DOMAIN LowerOf

ToUpper(c) == IF c \in DOMAIN UpperOf THEN UpperOf[c] ELSE c

ToLower(c) == IF c \in DOMAIN LowerOf THEN LowerOf[c] ELSE c

RECURSIVE TitleFrom(_, _)
TitleFrom(s, i) ==
  IF i > Len(s) THEN ""
  ELSE LET c == Chr(s, i)
           first == (i = 1) \/ ~IsAlpha(Chr(s, i - 1))
       IN (IF first THEN ToUpper(c) ELSE ToLower(c)) \o TitleFrom(s, i + 1)

\* str.title()
Title(s) == TitleFrom(s, 1)

\* str.startswith(p)
StartsWith(s, p) == Len(p) <= Len(s) /\ SubSeq(s, 1, Len(p)) = p

\* str.endswith(p)
EndsWith(s, p) == Len(p) <= Len(s) /\ SubSeq(s, Len(s) - Len(p) + 1, Len(s)) = p

RECURSIVE FindFrom(_, _, _)
\* least position >= i where sub occurs in s; 0 if none
FindFrom(s, sub, i) ==
  IF i + Len(sub) - 1 > Len(s) THEN 0
  ELSE IF SubSeq(s, i, i + Len(sub) - 1) = sub THEN i ELSE FindFrom(s, sub, i + 1)

RECURSIVE Replace(_, _, _)
\* str.replace(old, new), old non-empty
Replace(s, old, new) ==
  LET p == FindFrom(s, old, 1) IN
  IF p = 0 THEN s
  ELSE SubSeq(s, 1, p - 1) \o new \o Replace(SubSeq(s, p + Len(old), Len(s)), old, new)

\* str.split(sep)[0]
SplitFirst(s, sep) ==
  LET p == FindFrom(s, sep, 1) IN IF p = 0 THEN s ELSE SubSeq(s, 1, p - 1)

RECURSIVE SplitLast(_, _)
\* str.split(sep)[-1]
SplitLast(s, sep) ==
  LET p == FindFrom(s, sep, 1) IN
  IF p = 0 THEN s ELSE SplitLast(SubSeq(s, p + Len(sep), Len(s)), sep)

\* ------------------------------------------------------------------------
\* ovos_utils.parse: fuzzy_match, match_one
\* ------------------------------------------------------------------------

Max(a, b) == IF a >= b THEN a ELSE b

\* length of the longest common subsequence of a and b: Row[i] is the row
\* of a[1..i] in the table, its column j + 1 the length for b[1..j]
Lcs(a, b) ==
  LET Row[i \in 0..Len(a)] ==
        IF i = 0 THEN [j \in 1..(Len(b) + 1) |-> 0]
        ELSE LET prev == Row[i - 1]
                 cur[j \in 1..(Len(b) + 1)] ==
                   IF j = 1 THEN 0
                   ELSE IF Chr(a, i) = Chr(b, j - 1) THEN prev[j - 1] + 1
                   ELSE Max(prev[j], cur[j - 1])
             IN SubSeq(cur, 1, Len(b) + 1)
  IN Row[Len(a)][Len(b) + 1]

\* the similarity ratio 2*M/T of two strings, in [0, 1], 1.0 for equal
\* strings; here in units of 1/10000
Ratio(x, against) ==
  IF Len(x) + Len(against) = 0 THEN 10000
  ELSE (2 * Lcs(x, against) * 10000) \div (Len(x) + Len(against))

\* the strings that are matched against each other: what is asked for, the
\* keys of the alias indexes, commands, process names and window titles
Vocabulary ==
  { "firefox", "calculator", "fire", "Firefox", "Calculator", "Fire", "kcalc", "browser",
    "Mozilla Firefox", "firefox-esr" }

\* the ratios of these strings, computed once
RatioOf == [x \in Vocabulary, y \in Vocabulary |-> Ratio(x, y)] @@ <<>>

\* fuzzy_match(x, against)
fuzzy_match(x, against) == RatioOf[x, against]

\* a score literal of the code (0.85 is Pct(85))
Pct(p) == p * 100

RECURSIVE BestIndex(_, _, _, _)
\* index of the first entry of choices with the highest score (sorted() is
\* stable, so among equal scores the first key in iteration order is first)
BestIndex(query, choices, i, best) ==
  IF i > Len(choices) THEN best
  ELSE BestIndex(query, choices, i + 1,
                 IF fuzzy_match(query, choices[i][1]) > fuzzy_match(query, choices[best][1])
                 THEN i ELSE best)

\* match_one(query, choices) over a dict: (value, score) of the best key;
\* IndexError on an empty dict
match_one(query, choices) ==
  LET Best(b) ==
        [exc |-> None, cmd |-> choices[b][2], score |-> fuzzy_match(query, choices[b][1])]
  IN IF Len(choices) = 0 THEN [exc |-> "IndexError", cmd |-> None, score |-> 0]
     ELSE Best(BestIndex(query, choices, 1, 1))

\* ------------------------------------------------------------------------
\* dict (a sequence of <<key, value>> pairs, unique keys, insertion order)
\* and set iteration
\* ------------------------------------------------------------------------

RECURSIVE DictIndex(_, _, _)
DictIndex(d, k, i) ==
  IF i > Len(d) THEN 0 ELSE IF d[i][1] = k THEN i ELSE DictIndex(d, k, i + 1)

\* k in d
DictHas(d, k) == DictIndex(d, k, 1) > 0

\* d[k], for k in d
DictGet(d, k) == d[DictIndex(d, k, 1)][2]

\* d[k] = v: an existing key keeps its position, a new key goes last
DictSet(d, k, v) ==
  LET i == DictIndex(d, k, 1) IN
  IF i > 0 THEN [d EXCEPT ![i] = <<k, v>>] ELSE Append(d, <<k, v>>)

DictKeys(d) == {d[i][1] : i \in 1..Len(d)}

SeqToSet(q) == {q[i] : i \in 1..Len(q)}

\* the orders in which iterating over set S may yield its elements
Perms(S) ==
  {q \in [1..Cardinality(S) -> S] : \A i, j \in 1..Cardinality(S) : q[i] = q[j] => i = j}

\* ------------------------------------------------------------------------
\* Linux skill: alias index (get_app_aliases)
\* ------------------------------------------------------------------------

\* norm = lambda k: k.replace(".desktop", "").replace("-", " ")
\*                   .replace("_", " ").split(".")[-1].title()
norm(k) ==
  Title(SplitLast(Replace(Replace(Replace(k, ".desktop", ""), "-", " "), "_", " "), "."))

\* app["Exec"].split(" ")[0].split("/")[-1].split(".")[0]
ExecCmd(exec) == SplitFirst(SplitLast(SplitFirst(exec, " "), "/"), ".")

\* names = [cmd] + the values of the keys starting with "Name"; names += norms
AppNames(app) ==
  LET base == <<ExecCmd(app.Exec)>> \o app.Names
  IN base \o [i \in 1..Len(base) |-> norm(base[i])]

RECURSIVE InstallAll(_, _, _, _)
\* for alias in aliases: apps[alias] = cmd
InstallAll(apps, aliases, cmd, i) ==
  IF i > Len(aliases) THEN apps
  ELSE InstallAll(DictSet(apps, aliases[i], cmd), aliases, cmd, i + 1)

\* a loop body that stores a name already in the mapping under a second key
InstallName_suffixing(apps, settings, app, name) ==
  IF DictHas(apps, name) THEN DictSet(apps, name \o " 2", ExecCmd(app.Exec))
  ELSE DictSet(apps, name, ExecCmd(app.Exec))

\* the body of the loop over set(names) for one name
InstallName(apps, settings, app, name) ==
  LET cmd == ExecCmd(app.Exec)
      a1 == IF 3 <= Len(name) /\ Len(name) <= 20 THEN DictSet(apps, name, cmd) ELSE apps
      a2 == IF DictHas(settings.aliases, name)
            THEN InstallAll(a1, DictGet(settings.aliases, name), cmd, 1)
            ELSE a1
      alias == "C" \o SubSeq(name, 2, Len(name))
  IN IF StartsWith(name, "K") /\ "KDE" \in SeqToSet(app.Categories) /\ ~DictHas(a2, alias)
     THEN DictSet(a2, alias, cmd)
     ELSE a2

RECURSIVE InstallNames(_, _, _, _, _)
InstallNames(apps, settings, app, order, i) ==
  IF i > Len(order) THEN apps
  ELSE InstallNames(InstallName(apps, settings, app, order[i]), settings, app, order, i + 1)

RECURSIVE AliasesFrom(_, _, _, _)
\* the mappings the loop over the catalog may end with, from record i on;
\* set(names) is iterated in an unspecified order
AliasesFrom(apps, settings, catalog, i) ==
  IF i > Len(catalog) THEN {apps}
  ELSE UNION {AliasesFrom(InstallNames(apps, settings, catalog[i], order, 1),
                          settings, catalog, i + 1) :
              order \in Perms(SeqToSet(AppNames(catalog[i])))}

\* get_app_aliases: the mappings it may return for the records the catalog yields
get_app_aliases(settings, catalog) ==
  AliasesFrom(settings.user_commands, settings, catalog, 1)

\* ------------------------------------------------------------------------
\* Linux skill: the catalog (parse_desktop_file, get_desktop_apps).
\* A search directory is [state |-> "ok" | "absent" | "denied", files |-> ...],
\* a file is [file |-> its name, parse |-> "ok" | "unreadable" | "malformed",
\* entry |-> the keys of its [Desktop Entry] section, a dict].
\* ------------------------------------------------------------------------

\* keys_of_interest (no extra languages)
KeysOfInterest ==
  {"Name", "GenericName", "Categories", "Comment", "Keywords", "Exec", "Type", "Icon"}

\* parse_desktop_file: config.read() skips a file it cannot open and raises
\* on content it cannot parse
parse_desktop_file(f) ==
  IF f.parse = "malformed" THEN [exc |-> "ParsingError", data |-> <<>>]
  ELSE IF f.parse = "unreadable" THEN [exc |-> None, data |-> <<>>]
  ELSE [exc |-> None, data |-> SelectSeq(f.entry, LAMBDA kv : kv[1] \in KeysOfInterest)]

\* app_info.get(key, [])
ListOf(app_info, key) == IF DictHas(app_info, key) THEN DictGet(app_info, key) ELSE <<>>

\* the record of an entry as get_app_aliases reads it: Exec (a key of every
\* entry get_desktop_apps yields), the values of the keys that start with
\* "Name", Categories
RecordOf(app_info) ==
  [Exec |-> IF DictHas(app_info, "Exec") THEN DictGet(app_info, "Exec") ELSE None,
   Names |-> LET named == SelectSeq(app_info, LAMBDA kv : StartsWith(kv[1], "Name"))
             IN [k \in 1..Len(named) |-> named[k][2]],
   Categories |-> ListOf(app_info, "Categories")]

\* tests that let an entry without Exec through
Screen_without_exec_test(app_info, settings) ==
  IF Len(app_info) = 0 THEN "skip"
  ELSE IF ~DictHas(app_info, "Name") THEN "KeyError"
  ELSE IF ~DictHas(app_info, "Type") \/ DictGet(app_info, "Type") # "Application" THEN "skip"
  ELSE "yield"

\* the tests of get_desktop_apps on a parsed entry: "skip", "yield", or the
\* exception of app_info["Name"]
Screen(app_info, settings) ==
  IF Len(app_info) = 0 THEN "skip"
  ELSE IF ~DictHas(app_info, "Exec") THEN "skip"
  ELSE IF ~DictHas(app_info, "Name") THEN "KeyError"
  ELSE IF DictGet(app_info, "Name") \in SeqToSet(settings.blacklist) THEN "skip"
  ELSE IF ~DictHas(app_info, "Type") \/ DictGet(app_info, "Type") # "Application" THEN "skip"
  ELSE IF ~DictHas(app_info, "Icon") /\ settings.require_icon THEN "skip"
  ELSE IF /\ ~DictHas(app_info, "Categories")
          /\ (Len(settings.target_categories) > 0 \/ settings.require_categories) THEN "skip"
  ELSE IF ~DictHas(app_info, "Keywords") /\ Len(settings.target_keywords) > 0 THEN "skip"
  ELSE IF SeqToSet(ListOf(app_info, "Categories")) \cap SeqToSet(settings.skip_categories) # {}
       THEN "skip"
  ELSE IF SeqToSet(ListOf(app_info, "Keywords")) \cap SeqToSet(settings.skip_keywords) # {}
       THEN "skip"
  ELSE "yield"

RECURSIVE FilesFrom(_, _, _, _)
\* for f in listdir(p): the records yielded from file i on, and the exception
\* that ends the generator
FilesFrom(files, settings, i, acc) ==
  LET Screened(app_info, verdict) ==
        IF verdict = "skip" THEN FilesFrom(files, settings, i + 1, acc)
        ELSE IF verdict = "yield"
             THEN FilesFrom(files, settings, i + 1, Append(acc, RecordOf(app_info)))
             ELSE [records |-> acc, exc |-> verdict]
      Parsed(parsed) ==
        IF parsed.exc # None THEN [records |-> acc, exc |-> parsed.exc]
        ELSE Screened(parsed.data, Screen(parsed.data, settings))
  IN IF i > Len(files) THEN [records |-> acc, exc |-> None]
     ELSE IF ~EndsWith(files[i].file, ".desktop")
             \/ files[i].file \in SeqToSet(settings.blacklist)
          THEN FilesFrom(files, settings, i + 1, acc)
          ELSE Parsed(parse_desktop_file(files[i]))

RECURSIVE DirsFrom(_, _, _, _)
\* for p in [...]: if not isdir(p): continue; for f in listdir(p): ...
DirsFrom(dirs, settings, d, acc) ==
  LET Listed(r) ==
        IF r.exc # None THEN r ELSE DirsFrom(dirs, settings, d + 1, r.records)
  IN IF d > Len(dirs) THEN [records |-> acc, exc |-> None]
     ELSE IF dirs[d].state = "absent" THEN DirsFrom(dirs, settings, d + 1, acc)
     ELSE IF dirs[d].state = "denied" THEN [records |-> acc, exc |-> "PermissionError"]
     ELSE Listed(FilesFrom(dirs[d].files, settings, 1, acc))

\* get_desktop_apps: the records it yields, in order, and the exception that
\* ends it (None: it runs to its end)
get_desktop_apps(settings, dirs) == DirsFrom(dirs, settings, 1, <<>>)

\* ------------------------------------------------------------------------
\* macOS controller: the catalog (parse_app_bundle, get_macos_apps).
\* A search directory is [path |-> ..., state |-> "ok" | "absent" | "denied",
\* files |-> ...], an item is [item |-> its name, isdir |-> ...,
\* plist |-> "ok" | "missing" | "malformed" | "array", info |-> the keys of
\* Info.plist, a dict].
\* ------------------------------------------------------------------------

RECURSIVE LowerFrom(_, _)
LowerFrom(s, i) == IF i > Len(s) THEN "" ELSE ToLower(Chr(s, i)) \o LowerFrom(s, i + 1)

\* str.lower()
Lower(s) == LowerFrom(s, 1)

\* plist_data.get(key) or ""
PlistGet(info, key) == IF DictHas(info, key) THEN DictGet(info, key) ELSE ""

\* parse_app_bundle: {} without Info.plist, the directory name for a plist
\* that does not load, AttributeError for a plist whose root is no dict
\* (localized_names holds at most one name for the inputs of this model, so
\* the order of list(set(...)) does not show)
parse_app_bundle(app_dir, b) ==
  LET app_path == app_dir \o "/" \o b.item
      dirname == Replace(b.item, ".app", "")
      first == IF PlistGet(b.info, "CFBundleName") # "" THEN PlistGet(b.info, "CFBundleName")
               ELSE PlistGet(b.info, "CFBundleDisplayName")
      app_name == IF first # "" THEN first ELSE dirname
      display == IF DictHas(b.info, "CFBundleDisplayName")
                 THEN <<DictGet(b.info, "CFBundleDisplayName")>> ELSE <<>>
      bundle == IF DictHas(b.info, "CFBundleName") /\ DictGet(b.info, "CFBundleName") # app_name
                THEN <<DictGet(b.info, "CFBundleName")>> ELSE <<>>
  IN IF b.plist = "missing" THEN [exc |-> None, data |-> <<>>]
     ELSE IF b.plist = "malformed"
          THEN [exc |-> None,
                data |-> <<[name |-> dirname, path |-> app_path, localized_names |-> <<>>]>>]
     ELSE IF b.plist = "array" THEN [exc |-> "AttributeError", data |-> <<>>]
     ELSE [exc |-> None,
           data |-> <<[name |-> app_name, path |-> app_path,
                       localized_names |-> display \o bundle]>>]

RECURSIVE ItemsFrom(_, _, _, _, _, _)
\* for item in listdir(app_dir): the records yielded from item i on, the
\* names seen, and the exception that ends the generator
ItemsFrom(app_dir, files, blocklist, i, acc, seen_apps) ==
  LET Parsed(p) ==
        IF p.exc # None THEN [records |-> acc, seen |-> seen_apps, exc |-> p.exc]
        ELSE IF \/ Len(p.data) = 0
                \/ p.data[1].name = ""
                \/ p.data[1].name \in SeqToSet(blocklist)
                \/ Lower(p.data[1].name) \in seen_apps
             THEN ItemsFrom(app_dir, files, blocklist, i + 1, acc, seen_apps)
             ELSE ItemsFrom(app_dir, files, blocklist, i + 1, Append(acc, p.data[1]),
                            seen_apps \cup {Lower(p.data[1].name)})
  IN IF i > Len(files) THEN [records |-> acc, seen |-> seen_apps, exc |-> None]
     ELSE IF \/ ~EndsWith(files[i].item, ".app")
             \/ files[i].item \in SeqToSet(blocklist)
             \/ ~files[i].isdir
          THEN ItemsFrom(app_dir, files, blocklist, i + 1, acc, seen_apps)
          ELSE Parsed(parse_app_bundle(app_dir, files[i]))

RECURSIVE AppDirsFrom(_, _, _, _, _)
\* for app_dir in app_dirs: a directory that cannot be listed is passed over
AppDirsFrom(dirs, blocklist, d, acc, seen_apps) ==
  LET Listed(r) ==
        IF r.exc # None THEN [records |-> r.records, exc |-> r.exc]
        ELSE AppDirsFrom(dirs, blocklist, d + 1, r.records, r.seen)
  IN IF d > Len(dirs) THEN [records |-> acc, exc |-> None]
     ELSE IF dirs[d].state \in {"absent", "denied"}
          THEN AppDirsFrom(dirs, blocklist, d + 1, acc, seen_apps)
          ELSE Listed(ItemsFrom(dirs[d].path, dirs[d].files, blocklist, 1, acc, seen_apps))

\* get_macos_apps: the records it yields, in order, and the exception that
\* ends it (None: it runs to its end)
get_macos_apps(settings, dirs) == AppDirsFrom(dirs, settings.blocklist, 1, <<>>, {})

\* ------------------------------------------------------------------------
\* macOS controller: alias index (_build_app_aliases)
\* ------------------------------------------------------------------------

RECURSIVE InstallLocalized(_, _, _, _)
\* for localized_name in localized_names: if localized_name != app_name: ...
InstallLocalized(apps, app_info, names, i) ==
  IF i > Len(names) THEN apps
  ELSE InstallLocalized(IF names[i] # app_info.name
                        THEN DictSet(apps, names[i], app_info.path) ELSE apps,
                        app_info, names, i + 1)

\* the body of the loop over get_macos_apps for one record
InstallBundle(apps, settings, app_info) ==
  LET a1 == DictSet(apps, app_info.name, app_info.path)
      a2 == InstallLocalized(a1, app_info, app_info.localized_names, 1)
  IN IF DictHas(settings.aliases, app_info.name)
     THEN InstallAll(a2, DictGet(settings.aliases, app_info.name), app_info.path, 1)
     ELSE a2

RECURSIVE BundlesFrom(_, _, _, _)
BundlesFrom(apps, settings, bundles, i) ==
  IF i > Len(bundles) THEN apps
  ELSE BundlesFrom(InstallBundle(apps, settings, bundles[i]), settings, bundles, i + 1)

\* _build_app_aliases for the records get_macos_apps yields
build_app_aliases(settings, bundles) ==
  BundlesFrom(settings.user_commands, settings, bundles, 1)

\* ------------------------------------------------------------------------
\* Events a handler causes, in order: <<kind, argument, outcome>>
\*   "emit"          the async_prompt message is put on the bus
\*   "speak"         speak_dialog("already_running")
\*   "ask"           ask_yesno(question)
\*   "launch_app"    launch_app(app) is entered
\*   "spawn"         subprocess.Popen(command), outcome "ok" | "fail"
\*   "terminate"     proc.terminate() on a pid, outcome "ok" | the exception
\*   "close_window"  wmctrl -ic on a window id, outcome "ok" | "fail"
\*   "switch_window" wmctrl -iR on a window id, outcome "ok" | "fail"
\*   "quit"          AppleScript quit of an application, outcome "ok" | "fail"
\*   "activate"      AppleScript activate of an application, outcome "ok" | "fail"
\*   "acknowledge"   the acknowledge sound
\* ------------------------------------------------------------------------

Acknowledge == <<"acknowledge", None, None>>

Outcome(ok) == IF ok THEN "ok" ELSE "fail"

Kinds(ev) == {ev[k][1] : k \in 1..Len(ev)}

Count(ev, kind) == Cardinality({k \in 1..Len(ev) : ev[k][1] = kind})

\* Python truthiness of an ask_yesno() answer or of the initial False / True
Truthy(v) == v \notin {None, "False", ""}

RECURSIVE Reverse(_)
Reverse(q) == IF Len(q) = 0 THEN <<>> ELSE Append(Reverse(Tail(q)), Head(q))

RECURSIVE InsertDesc(_, _)
\* p inserted into q (sorted by create_time, descending) after the entries
\* that do not sort after it: sorted(..., reverse=True) keeps equal keys in order
InsertDesc(q, p) ==
  IF Len(q) = 0 THEN <<p>>
  ELSE IF Head(q).create_time >= p.create_time
       THEN <<Head(q)>> \o InsertDesc(Tail(q), p)
       ELSE <<p>> \o q

RECURSIVE SortedProcesses(_)
\* sorted(psutil.process_iter(...), key=create_time, reverse=True)
SortedProcesses(procs) ==
  IF Len(procs) = 0 THEN <<>>
  ELSE InsertDesc(SortedProcesses(SubSeq(procs, 1, Len(procs) - 1)), procs[Len(procs)])

RECURSIVE UntilGone(_)
\* the processes whose proc.status() is read before the read of one raises:
\* status() raises NoSuchProcess for a process that has exited since
\* process_iter() listed it
UntilGone(processes) ==
  IF Len(processes) = 0 \/ Head(processes).status = "NoSuchProcess" THEN <<>>
  ELSE <<Head(processes)>> \o UntilGone(Tail(processes))

\* the exception the loop over the processes ends in, None without one
StatusError(processes) ==
  IF \E k \in 1..Len(processes) : processes[k].status = "NoSuchProcess"
  THEN "NoSuchProcess" ELSE None

\* ------------------------------------------------------------------------
\* Linux skill: processes
\* ------------------------------------------------------------------------

\* the process-name bar of the Linux skill: score > 0.9
ProcessBar == Pct(90)

\* a match_process that does not look at the status of a process
match_process_with_zombies(app, applist, procs) ==
  LET Yielded(cmd) ==
        SelectSeq(SortedProcesses(procs),
                  LAMBDA proc : fuzzy_match(cmd, proc.name) > ProcessBar)
      Matched(m) ==
        IF m.exc # None THEN [exc |-> m.exc, procs |-> <<>>, listed |-> FALSE]
        ELSE [exc |-> None, listed |-> TRUE,
              procs |-> Yielded(SplitLast(SplitFirst(m.cmd, " "), "/"))]
  IN Matched(match_one(Title(app), applist))

\* match_process: the processes the generator yields, in order; exc is the
\* exception it raises once they are consumed (match_one's, before any, or
\* that of a status read), None when it ends; listed tells whether it got as
\* far as psutil.process_iter()
match_process(app, applist, procs) ==
  LET Yielded(cmd) ==
        SelectSeq(UntilGone(SortedProcesses(procs)),
                  LAMBDA proc : proc.status # "zombie"
                                /\ fuzzy_match(cmd, proc.name) > ProcessBar)
      Matched(m) ==
        IF m.exc # None THEN [exc |-> m.exc, procs |-> <<>>, listed |-> FALSE]
        ELSE [exc |-> StatusError(procs), listed |-> TRUE,
              procs |-> Yielded(SplitLast(SplitFirst(m.cmd, " "), "/"))]
  IN Matched(match_one(Title(app), applist))

RECURSIVE TerminateFrom_without_break(_, _, _, _)
\* a loop that asks every matched process to terminate, whatever terminate_all
TerminateFrom_without_break(matched, terminate_all, i, acc) ==
  IF i > Len(matched) THEN acc
  ELSE TerminateFrom_without_break(
         matched, terminate_all, i + 1,
         [ev |-> Append(acc.ev, <<"terminate", matched[i].pid, matched[i].term>>),
          terminated |-> IF matched[i].term = "ok"
                         THEN Append(acc.terminated, matched[i].pid)
                         ELSE acc.terminated,
          broke |-> FALSE])

RECURSIVE TerminateFrom(_, _, _, _)
\* the loop of close_by_process over the matched processes: the events, the
\* list of terminated pids, and whether the loop was left by its break
TerminateFrom(matched, terminate_all, i, acc) ==
  IF i > Len(matched) THEN acc
  ELSE LET proc == matched[i]
           acc1 == [ev |-> Append(acc.ev, <<"terminate", proc.pid, proc.term>>),
                    terminated |-> IF proc.term = "ok"
                                   THEN Append(acc.terminated, proc.pid)
                                   ELSE acc.terminated,
                    broke |-> proc.term = "ok" /\ ~terminate_all]
       IN IF acc1.broke THEN acc1
          ELSE TerminateFrom(matched, terminate_all, i + 1, acc1)

\* a close_by_process that leaves every process alone
close_by_process_spares_all(app, applist, settings, procs) ==
  [ev |-> <<>>, ret |-> "False", listed |-> FALSE]

\* close_by_process (Linux skill)
close_by_process(app, applist, settings, procs) ==
  LET Terminated(t, mp) ==
        IF ~t.broke /\ mp.exc # None
        THEN [ev |-> t.ev, ret |-> mp.exc, listed |-> mp.listed]
        ELSE IF Len(t.terminated) > 0
             THEN [ev |-> Append(t.ev, Acknowledge), ret |-> "True", listed |-> TRUE]
             ELSE [ev |-> t.ev, ret |-> "False", listed |-> TRUE]
      Matched(mp) ==
        Terminated(TerminateFrom(mp.procs, settings.terminate_all, 1,
                                 [ev |-> <<>>, terminated |-> <<>>, broke |-> FALSE]), mp)
  IN Matched(match_process(app, applist, procs))

\* ------------------------------------------------------------------------
\* Linux skill: windows
\* ------------------------------------------------------------------------

\* get_window_process_mapping: wmctrl's lines, last first (windows[::-1])
get_window_process_mapping(wins) == Reverse(wins)

\* max(fuzzy_match(process name, app), fuzzy_match(window title, app))
WindowScore(win, app) == Max(fuzzy_match(win.pname, app), fuzzy_match(win.title, app))

RECURSIVE MatchWindowFrom_keeping_lower(_, _, _, _, _, _)
\* a loop that keeps the candidates it has when a better window comes
MatchWindowFrom_keeping_lower(app, windows, thresh, i, candidates, best) ==
  LET Scored(score) ==
        IF score < thresh
        THEN MatchWindowFrom_keeping_lower(app, windows, thresh, i + 1, candidates, best)
        ELSE IF score >= best
             THEN MatchWindowFrom_keeping_lower(app, windows, thresh, i + 1,
                                                Append(candidates, windows[i]), score)
             ELSE MatchWindowFrom_keeping_lower(app, windows, thresh, i + 1, candidates, best)
  IN IF i > Len(windows) THEN candidates ELSE Scored(WindowScore(windows[i], app))

RECURSIVE MatchWindowFrom(_, _, _, _, _, _)
MatchWindowFrom(app, windows, thresh, i, candidates, best) ==
  LET Scored(score) ==
        IF score < thresh
        THEN MatchWindowFrom(app, windows, thresh, i + 1, candidates, best)
        ELSE IF score > best
             THEN MatchWindowFrom(app, windows, thresh, i + 1, <<windows[i]>>, score)
             ELSE IF score = best
                  THEN MatchWindowFrom(app, windows, thresh, i + 1,
                                       Append(candidates, windows[i]), score)
                  ELSE MatchWindowFrom(app, windows, thresh, i + 1, candidates, best)
  IN IF i > Len(windows) THEN candidates ELSE Scored(WindowScore(windows[i], app))

\* every window there is, matching or not
match_window_unranked(app, settings, wins) == get_window_process_mapping(wins)

\* match_window
match_window(app, settings, wins) ==
  MatchWindowFrom(app, get_window_process_mapping(wins), settings.thresh, 1, <<>>, 0)

\* close_by_window: close_window() on the candidates (the first one only
\* unless terminate_all); its result is not looked at
close_by_window(app, settings, wins, wmOk) ==
  LET Closed(closed) ==
        [ev |-> [k \in 1..Len(closed) |-> <<"close_window", closed[k].id, Outcome(wmOk)>>]
                  \o <<Acknowledge>>,
         ret |-> "True"]
      Matched(candidates) ==
        IF Len(candidates) = 0 THEN [ev |-> <<>>, ret |-> "False"]
        ELSE Closed(IF settings.terminate_all THEN candidates ELSE SubSeq(candidates, 1, 1))
  IN Matched(match_window(app, settings, wins))

\* switch_window: wmctrl -iR; a window_id of None makes subprocess.run raise,
\* which is caught
switch_window(window_id, wmOk) ==
  IF window_id # None /\ wmOk
  THEN [ev |-> <<<<"switch_window", window_id, "ok">>, Acknowledge>>, ret |-> "True"]
  ELSE [ev |-> <<<<"switch_window", window_id, "fail">>>>, ret |-> "False"]

\* self.wmctrl and not self.settings.get("disable_window_manager", False)
WindowManagerOn(tool, settings) == tool # None /\ ~settings.disable_window_manager

\* ------------------------------------------------------------------------
\* Linux skill: launch_app, close_app, is_running, handle_fallback
\* ------------------------------------------------------------------------

\* a launch_app that starts nothing
launch_app_without_spawn(app, applist, settings, spawnOk) ==
  [ev |-> <<<<"launch_app", app, None>>>>, ret |-> "False"]

\* a launch_app that wants the score above the threshold
launch_app_strict(app, applist, settings, spawnOk) ==
  LET Matched(m) ==
        IF m.exc # None THEN [ev |-> <<<<"launch_app", app, None>>>>, ret |-> m.exc]
        ELSE IF m.score > settings.thresh
             THEN [ev |-> <<<<"launch_app", app, None>>,
                            <<"spawn", m.cmd, IF spawnOk THEN "ok" ELSE "fail">>>>,
                   ret |-> IF spawnOk THEN "True" ELSE "False"]
             ELSE [ev |-> <<<<"launch_app", app, None>>>>, ret |-> "False"]
  IN Matched(match_one(Title(app), applist))

\* launch_app
launch_app(app, applist, settings, spawnOk) ==
  LET Matched(m) ==
        IF m.exc # None THEN [ev |-> <<<<"launch_app", app, None>>>>, ret |-> m.exc]
        ELSE IF m.score >= settings.thresh
             THEN IF spawnOk
                  THEN [ev |-> <<<<"launch_app", app, None>>, <<"spawn", m.cmd, "ok">>,
                                 Acknowledge>>,
                        ret |-> "True"]
                  ELSE [ev |-> <<<<"launch_app", app, None>>, <<"spawn", m.cmd, "fail">>>>,
                        ret |-> "False"]
             ELSE [ev |-> <<<<"launch_app", app, None>>>>, ret |-> "False"]
  IN Matched(match_one(Title(app), applist))

\* close_app: close_by_window(app) or close_by_process(app) with the window
\* manager, close_by_process(app) without
close_app(app, applist, settings, tool, procs, wins, wmOk) ==
  LET ByProcess(w, p) == [ev |-> w.ev \o p.ev, ret |-> p.ret, listed |-> p.listed]
      ByWindow(w) ==
        IF w.ret = "True" THEN [ev |-> w.ev, ret |-> w.ret, listed |-> FALSE]
        ELSE ByProcess(w, close_by_process(app, applist, settings, procs))
  IN ByWindow(IF WindowManagerOn(tool, settings)
              THEN close_by_window(app, settings, wins, wmOk)
              ELSE [ev |-> <<>>, ret |-> "False"])

\* is_running
is_running(app, applist, settings, tool, procs, wins) ==
  LET Matched(mp) ==
        IF Len(mp.procs) > 0 THEN [ret |-> "True", listed |-> TRUE]
        ELSE IF mp.exc # None THEN [ret |-> mp.exc, listed |-> mp.listed]
        ELSE [ret |-> "False", listed |-> TRUE]
  IN IF tool # None /\ Len(match_window(app, settings, wins)) > 0
     THEN [ret |-> "True", listed |-> FALSE]
     ELSE Matched(match_process(app, applist, procs))

\* a handle_fallback that launches the application it found running as well
handle_fallback_and_launch(name, app, applist, settings, tool, procs, wins, wmOk, spawnOk) ==
  LET Launched(l, listed) == [ev |-> l.ev, ret |-> l.ret, listed |-> listed]
      Launch(running) ==
        IF running.ret = "True"
        THEN [ev |-> <<<<"emit", app, None>>>> \o launch_app(app, applist, settings, spawnOk).ev,
              ret |-> "True", listed |-> running.listed]
        ELSE IF running.ret # "False"
             THEN [ev |-> <<>>, ret |-> running.ret, listed |-> running.listed]
             ELSE Launched(launch_app(app, applist, settings, spawnOk), running.listed)
  IN IF name = "launch"
     THEN Launch(is_running(app, applist, settings, tool, procs, wins))
     ELSE IF name = "close"
          THEN close_app(app, applist, settings, tool, procs, wins, wmOk)
          ELSE [ev |-> <<>>, ret |-> "False", listed |-> FALSE]

\* handle_fallback, for an utterance with an application name
handle_fallback(name, app, applist, settings, tool, procs, wins, wmOk, spawnOk) ==
  LET Launched(l, listed) == [ev |-> l.ev, ret |-> l.ret, listed |-> listed]
      Launch(running) ==
        IF running.ret = "True"
        THEN [ev |-> <<<<"emit", app, None>>>>, ret |-> "True", listed |-> running.listed]
        ELSE IF running.ret # "False"
             THEN [ev |-> <<>>, ret |-> running.ret, listed |-> running.listed]
             ELSE Launched(launch_app(app, applist, settings, spawnOk), running.listed)
  IN IF name = "launch"
     THEN Launch(is_running(app, applist, settings, tool, procs, wins))
     ELSE IF name = "close"
          THEN close_app(app, applist, settings, tool, procs, wins, wmOk)
          ELSE [ev |-> <<>>, ret |-> "False", listed |-> FALSE]

\* ------------------------------------------------------------------------
\* macOS controller: the alias cache.  A controller state c is
\*   [cache |-> [none |-> _app_cache is None, map |-> _app_cache otherwise],
\*    failed |-> _cache_build_failed]
\* buildOk tells whether _build_app_aliases returns (TRUE) or raises (FALSE)
\* ------------------------------------------------------------------------

NoCache == [none |-> TRUE, map |-> <<>>]

\* the fields as __init__ sets them before it builds the cache
NewController == [cache |-> NoCache, failed |-> FALSE, builds |-> 0]

\* an app_aliases property that builds at every read
ctl_app_aliases_uncached(c, settings, bundles, buildOk) ==
  [val |-> build_app_aliases(settings, bundles),
   c |-> [cache |-> [none |-> FALSE, map |-> build_app_aliases(settings, bundles)],
          failed |-> FALSE, builds |-> c.builds + 1]]

\* the app_aliases property: the mapping it returns and the state it leaves
ctl_app_aliases(c, settings, bundles, buildOk) ==
  LET Built(apps) ==
        [val |-> apps,
         c |-> [cache |-> [none |-> FALSE, map |-> apps], failed |-> FALSE,
                builds |-> c.builds + 1]]
  IN IF c.cache.none
     THEN IF buildOk
          THEN Built(build_app_aliases(settings, bundles))
          ELSE [val |-> <<>>, c |-> [c EXCEPT !.failed = TRUE, !.builds = @ + 1]]
     ELSE [val |-> c.cache.map, c |-> c]

\* a refresh that clears the flag and keeps the mapping
ctl_refresh_app_cache_keeping_cache(c) == [c EXCEPT !.failed = FALSE]

\* refresh_app_cache
ctl_refresh_app_cache(c) == [c EXCEPT !.cache = NoCache, !.failed = FALSE]

\* is_cache_valid
ctl_is_cache_valid(c) == ~c.cache.none /\ ~c.failed

\* MacApplicationLauncherSkill.refresh_application_cache: refresh_app_cache(),
\* then the value of is_cache_valid()
mac_refresh_application_cache(c) ==
  [c |-> ctl_refresh_app_cache(c),
   ret |-> IF ctl_is_cache_valid(ctl_refresh_app_cache(c)) THEN "True" ELSE "False"]

\* _ensure_cache_or_rebuild: its result and the state it leaves
ctl_ensure_cache_or_rebuild(c, settings, bundles, buildOk) ==
  LET Rebuilt(a) == [val |-> ctl_is_cache_valid(a.c), c |-> a.c]
  IN IF c.failed \/ c.cache.none
     THEN Rebuilt(ctl_app_aliases(ctl_refresh_app_cache(c), settings, bundles, buildOk))
     ELSE [val |-> TRUE, c |-> c]

\* the lookup that opens launch_app, switch_to_app, close_by_applescript and
\* match_process: match_one on the aliases, with one rebuild of a cache that
\* is not valid when match_one raises.  found = FALSE is the early return.
ctl_resolve(app, c, settings, bundles, buildOk) ==
  LET Miss(c1) == [found |-> FALSE, cmd |-> None, score |-> 0, c |-> c1]
      Hit(m, c1) ==
        IF m.exc = None THEN [found |-> TRUE, cmd |-> m.cmd, score |-> m.score, c |-> c1]
        ELSE Miss(c1)
      Again(a2) == Hit(match_one(Title(app), a2.val), a2.c)
      Rebuilt(e) ==
        IF ~e.val THEN Miss(e.c)
        ELSE Again(ctl_app_aliases(e.c, settings, bundles, buildOk))
      First(m1, a1) ==
        IF m1.exc = None \/ ctl_is_cache_valid(a1.c) THEN Hit(m1, a1.c)
        ELSE Rebuilt(ctl_ensure_cache_or_rebuild(a1.c, settings, bundles, buildOk))
      Read(a1) == First(match_one(Title(app), a1.val), a1)
  IN Read(ctl_app_aliases(c, settings, bundles, buildOk))

\* ------------------------------------------------------------------------
\* macOS controller: launch, close, switch, processes
\* ------------------------------------------------------------------------

\* the process-name bar of the macOS controller: max(score1, score2) > 0.8
MacProcessBar == Pct(80)

\* os.path.basename(cmd).replace(".app", "") for a bundle, else cmd
AppleScriptName(cmd) ==
  IF EndsWith(cmd, ".app") THEN Replace(SplitLast(cmd, "/"), ".app", "") ELSE cmd

\* launch_app (controller)
ctl_launch_app(app, c, settings, bundles, buildOk, spawnOk) ==
  LET Resolved(r) ==
        IF r.found /\ r.score >= settings.thresh
        THEN [ev |-> <<<<"spawn", r.cmd, Outcome(spawnOk)>>>>,
              ret |-> IF spawnOk THEN "True" ELSE "False", c |-> r.c]
        ELSE [ev |-> <<>>, ret |-> "False", c |-> r.c]
  IN Resolved(ctl_resolve(app, c, settings, bundles, buildOk))

\* app_name in match_process: the bundle's name for a bundle path, else
\* the basename of the command's first word
ProcessName(cmd) ==
  IF EndsWith(cmd, ".app") THEN Replace(SplitLast(cmd, "/"), ".app", "")
  ELSE SplitLast(SplitFirst(cmd, " "), "/")

\* bundle_name in match_process
BundleName(cmd) ==
  IF EndsWith(cmd, ".app") THEN Replace(SplitLast(cmd, "/"), ".app", "")
  ELSE ProcessName(cmd)

\* match_process (controller): the processes the generator yields, in order,
\* and the exception a status read ends it in
ctl_match_process(app, c, settings, bundles, buildOk, procs) ==
  LET Yielded(app_name, bundle_name) ==
        SelectSeq(UntilGone(SortedProcesses(procs)),
                  LAMBDA proc : proc.status # "zombie"
                                /\ Max(fuzzy_match(app_name, proc.name),
                                       fuzzy_match(bundle_name, proc.name)) > MacProcessBar)
      Resolved(r) ==
        IF ~r.found \/ r.score < settings.thresh
        THEN [exc |-> None, procs |-> <<>>, c |-> r.c, listed |-> FALSE]
        ELSE [exc |-> StatusError(procs), c |-> r.c, listed |-> TRUE,
              procs |-> Yielded(ProcessName(r.cmd), BundleName(r.cmd))]
  IN Resolved(ctl_resolve(app, c, settings, bundles, buildOk))

\* close_by_process (controller)
ctl_close_by_process(app, c, settings, bundles, buildOk, procs) ==
  LET Terminated(t, mp) ==
        [ev |-> t.ev, c |-> mp.c, listed |-> mp.listed,
         ret |-> IF ~t.broke /\ mp.exc # None THEN mp.exc
                 ELSE IF Len(t.terminated) > 0 THEN "True" ELSE "False"]
      Matched(mp) ==
        Terminated(TerminateFrom(mp.procs, settings.terminate_all, 1,
                                 [ev |-> <<>>, terminated |-> <<>>, broke |-> FALSE]), mp)
  IN Matched(ctl_match_process(app, c, settings, bundles, buildOk, procs))

\* what close_by_applescript and switch_to_app do with the command verb
\* ("quit" / "activate") once osascript is known to exist
ctl_tell(verb, app, c, settings, bundles, buildOk, wmOk) ==
  LET Resolved(r) ==
        IF ~r.found \/ r.score < settings.thresh THEN [ev |-> <<>>, ret |-> "False", c |-> r.c]
        ELSE [ev |-> <<<<verb, AppleScriptName(r.cmd), Outcome(wmOk)>>>>,
              ret |-> IF wmOk THEN "True" ELSE "False", c |-> r.c]
  IN Resolved(ctl_resolve(app, c, settings, bundles, buildOk))

\* close_by_applescript
ctl_close_by_applescript(app, tool, c, settings, bundles, buildOk, wmOk) ==
  IF tool = None THEN [ev |-> <<>>, ret |-> "False", c |-> c]
  ELSE ctl_tell("quit", app, c, settings, bundles, buildOk, wmOk)

\* switch_to_app
ctl_switch_to_app(app, tool, c, settings, bundles, buildOk, wmOk) ==
  IF tool = None THEN [ev |-> <<>>, ret |-> "False", c |-> c]
  ELSE ctl_tell("activate", app, c, settings, bundles, buildOk, wmOk)

\* close_app (controller)
ctl_close_app(app, tool, c, settings, bundles, buildOk, procs, wmOk) ==
  LET ByProcess(w, p) == [ev |-> w.ev \o p.ev, ret |-> p.ret, c |-> p.c, listed |-> p.listed]
      ByScript(w) ==
        IF w.ret = "True" THEN [ev |-> w.ev, ret |-> w.ret, c |-> w.c, listed |-> FALSE]
        ELSE ByProcess(w, ctl_close_by_process(app, w.c, settings, bundles, buildOk, procs))
  IN ByScript(IF WindowManagerOn(tool, settings)
              THEN ctl_close_by_applescript(app, tool, c, settings, bundles, buildOk, wmOk)
              ELSE [ev |-> <<>>, ret |-> "False", c |-> c])

\* is_running (controller)
ctl_is_running(app, c, settings, bundles, buildOk, procs) ==
  LET Matched(mp) ==
        [ret |-> IF Len(mp.procs) > 0 THEN "True"
                 ELSE IF mp.exc # None THEN mp.exc ELSE "False",
         c |-> mp.c, listed |-> mp.listed]
  IN Matched(ctl_match_process(app, c, settings, bundles, buildOk, procs))

\* ------------------------------------------------------------------------
\* macOS skill: launch_app, close_app, handle_fallback
\* ------------------------------------------------------------------------

\* the skill's wrappers: acknowledge when the controller returned True
Acknowledged(l) ==
  [l EXCEPT !.ev = IF l.ret = "True" THEN Append(l.ev, Acknowledge) ELSE l.ev]

\* launch_app (skill)
mac_launch_app(app, c, settings, bundles, buildOk, spawnOk) ==
  LET Entered(l) == [l EXCEPT !.ev = <<<<"launch_app", app, None>>>> \o l.ev]
  IN Entered(Acknowledged(ctl_launch_app(app, c, settings, bundles, buildOk, spawnOk)))

\* close_app (skill)
mac_close_app(app, tool, c, settings, bundles, buildOk, procs, wmOk) ==
  Acknowledged(ctl_close_app(app, tool, c, settings, bundles, buildOk, procs, wmOk))

\* handle_fallback (macOS skill), for an utterance with an application name
mac_handle_fallback(name, app, tool, c, settings, bundles, buildOk, procs, wmOk, spawnOk) ==
  LET Launched(l, listed) == [ev |-> l.ev, ret |-> l.ret, c |-> l.c, listed |-> listed]
      Launch(running) ==
        IF running.ret = "True"
        THEN [ev |-> <<<<"emit", app, None>>>>, ret |-> "True", c |-> running.c,
              listed |-> running.listed]
        ELSE IF running.ret # "False"
             THEN [ev |-> <<>>, ret |-> running.ret, c |-> running.c,
                   listed |-> running.listed]
             ELSE Launched(mac_launch_app(app, running.c, settings, bundles, buildOk,
                                          spawnOk),
                           running.listed)
  IN IF name = "launch"
     THEN Launch(ctl_is_running(app, c, settings, bundles, buildOk, procs))
     ELSE IF name = "close"
          THEN mac_close_app(app, tool, c, settings, bundles, buildOk, procs, wmOk)
          ELSE [ev |-> <<>>, ret |-> "False", c |-> c, listed |-> FALSE]

\* ------------------------------------------------------------------------
\* The confirmation flow (handle_async_prompt), the parts both skills share
\* ------------------------------------------------------------------------

\* for i in range(5)
RetryCap == 5

\* a question that is asked on every iteration, whatever the answer was
NotAnsweredEver(answer) == TRUE

\* if switch not in ["no", "yes"] / if launch not in ["no", "yes"]
NotAnswered(answer) == answer \notin {"no", "yes"}

\* a flow that launches without its second question
AsksLaunchNever(answer) == FALSE

\* if not switch: the launch question is asked
AsksLaunch(answer) == ~Truthy(answer)

\* if switch and switch == "yes"
Confirmed(answer) == Truthy(answer) /\ answer = "yes"

\* a launch question whose "no" is not listened to
DeclinedNever(answer) == FALSE

\* if launch == "no": return True
Declined(answer) == answer = "no"

\* ------------------------------------------------------------------------
\* Bounds and inputs
\* ------------------------------------------------------------------------

\* longest list of processes psutil.process_iter() yields
MaxProcs == 2

\* longest list of windows wmctrl -lp prints
MaxWins == 2

\* what the user is heard to ask for
Apps == {"firefox", "calculator", "fire"}

Intents == {"launch", "close"}

\* what ask_yesno() returns: "yes", "no", None (no response), or the
\* utterance when it is neither
Responses == {"yes", "no", None, "maybe"}

ProcKinds ==
  { [name |-> "firefox", status |-> "running", term |-> "ok"],
    [name |-> "firefox", status |-> "zombie", term |-> "ok"],
    [name |-> "firefox", status |-> "running", term |-> "AccessDenied"],
    [name |-> "firefox", status |-> "running", term |-> "NoSuchProcess"],
    [name |-> "firefox", status |-> "NoSuchProcess", term |-> "NoSuchProcess"],
    [name |-> "kcalc", status |-> "running", term |-> "ok"] }

\* the process lists: pids and creation times grow along the list
ProcLists ==
  { [k \in 1..Len(f) |-> [pid |-> k, create_time |-> k, name |-> f[k].name,
                          status |-> f[k].status, term |-> f[k].term]] :
    f \in UNION {[1..m -> ProcKinds] : m \in 0..MaxProcs} }

WinKinds ==
  { [pname |-> "firefox", title |-> "Mozilla Firefox"],
    [pname |-> "firefox-esr", title |-> "Firefox"] }

\* the user_commands a settings file may hold: none, a command of its own,
\* a command under a name an installed application also has
UserCommandSets ==
  { <<>>, << <<"calculator", "kcalc">> >>, << <<"Firefox", "firefox-esr">> >> }

LinuxAliases == << <<"kcalc", <<"calculator">> >> >>

MacAliases == << <<"Firefox", <<"browser">> >> >>

FirefoxDesktop ==
  [Exec |-> "/usr/bin/firefox %u", Names |-> <<"Firefox">>, Categories |-> <<"Network">>]

FirefoxBundle ==
  [name |-> "Firefox", path |-> "/Applications/Firefox.app", localized_names |-> <<>>]

\* most search directories looked at, most entries in one of them, most runs
\* of the alias builder
MaxDirs == 2

MaxFiles == 1

MaxBuilds == 3

\* the search directories of get_desktop_apps and of get_macos_apps, in
\* their order; the first MaxDirs of them are looked at
LinuxPaths ==
  <<"/usr/share/applications/", "/usr/local/share/applications/",
    "~/.local/share/applications/">>

MacPaths ==
  <<"/Applications", "/System/Applications", "/Applications/Utilities",
    "/System/Library/CoreServices", "/System/Applications/Utilities", "~/Applications">>

FirefoxFile ==
  [file |-> "firefox.desktop", parse |-> "ok",
   entry |-> << <<"Type", "Application">>, <<"Name", "Firefox">>,
                <<"Exec", "/usr/bin/firefox %u">>, <<"Icon", "firefox">>,
                <<"Categories", <<"Network">> >>, <<"MimeType", <<"text/html">> >> >>]

\* a KDE application without an icon
KateFile ==
  [file |-> "org.kde.kate.desktop", parse |-> "ok",
   entry |-> << <<"Type", "Application">>, <<"Name", "Kate">>, <<"Exec", "kate -b %U">>,
                <<"Categories", <<"Qt", "KDE">> >> >>]

\* an entry without Exec
NoExecFile ==
  [file |-> "fire.desktop", parse |-> "ok",
   entry |-> << <<"Type", "Application">>, <<"Name", "Fire">>, <<"Icon", "fire">>,
                <<"Categories", <<"Network">> >> >>]

\* an entry with Exec and without Name
NoNameFile ==
  [file |-> "kcalc.desktop", parse |-> "ok",
   entry |-> << <<"Type", "Application">>, <<"Exec", "/usr/bin/kcalc">>,
                <<"Icon", "kcalc">>, <<"Categories", <<"Utility">> >> >>]

\* a file configparser cannot parse, and one it cannot open
MalformedFile == [file |-> "broken.desktop", parse |-> "malformed", entry |-> <<>>]

UnreadableFile == [file |-> "secret.desktop", parse |-> "unreadable", entry |-> <<>>]

DesktopFiles ==
  {FirefoxFile, KateFile, NoExecFile, NoNameFile, MalformedFile, UnreadableFile}

FirefoxApp ==
  [item |-> "Firefox.app", isdir |-> TRUE, plist |-> "ok",
   info |-> << <<"CFBundleName", "Firefox">>, <<"CFBundleIdentifier", "org.mozilla.firefox">> >>]

\* a bundle with a two-letter name and a display name
TVApp ==
  [item |-> "TV.app", isdir |-> TRUE, plist |-> "ok",
   info |-> << <<"CFBundleName", "TV">>, <<"CFBundleDisplayName", "Apple TV">> >>]

\* a second bundle of the same application, named in lower case
FirefoxCopyApp ==
  [item |-> "Firefox Copy.app", isdir |-> TRUE, plist |-> "ok",
   info |-> << <<"CFBundleName", "firefox">> >>]

\* bundles whose Info.plist does not load, is absent, or holds an array
MalformedApp == [item |-> "Broken.app", isdir |-> TRUE, plist |-> "malformed", info |-> <<>>]

NoPlistApp == [item |-> "Empty.app", isdir |-> TRUE, plist |-> "missing", info |-> <<>>]

ArrayApp == [item |-> "Odd.app", isdir |-> TRUE, plist |-> "array", info |-> <<>>]

AppBundles == {FirefoxApp, TVApp, FirefoxCopyApp, MalformedApp, NoPlistApp, ArrayApp}

\* a search directory that lists files
Dir(path, files) == [path |-> path, state |-> "ok", files |-> files]

\* the disks: each search directory is absent, cannot be listed, or lists up
\* to MaxFiles of the given entries
Disks(paths, entries) ==
  LET Listings == {Dir("", f) : f \in UNION {[1..m -> entries] : m \in 0..MaxFiles}}
                    \cup {[path |-> "", state |-> st, files |-> <<>>] : st \in {"absent", "denied"}}
  IN { [k \in 1..MaxDirs |-> [d[k] EXCEPT !.path = paths[k]]] : d \in [1..MaxDirs -> Listings] }

\* the settings of the catalog filters a settings file may hold, next to the
\* defaults of get_app_aliases
FilterSettings ==
  [require_icon : BOOLEAN, require_categories : BOOLEAN,
   blacklist : {<<>>, <<"Kate">>}, blocklist : {<<>>, <<"Firefox.app">>}]

\* the thresh a settings file may hold: the default, and the score of an
\* exact match
Thresholds == {Pct(85), Pct(100)}

\* a user command under a two-letter name, next to the others
BuildCommandSets == UserCommandSets \cup {<< <<"vi", "vim">> >>}

BuildAliases == << <<"kcalc", <<"calculator">> >>, <<"Firefox", <<"browser">> >> >>

WinIds == <<"0x01", "0x02", "0x03", "0x04">>

\* the window lists, in the order wmctrl prints them
WinLists ==
  { [k \in 1..Len(f) |-> [id |-> WinIds[k], pname |-> f[k].pname, title |-> f[k].title]] :
    f \in UNION {[1..m -> WinKinds] : m \in 0..MaxWins} }

\* ------------------------------------------------------------------------
\* Settings and the initial state
\* ------------------------------------------------------------------------

\* what no handler changes
config ==
  <<platform, configured, self_settings, self_tool, manifests, installed, self_applist, built, op>>

\* self.settings["user_commands"] after get_app_aliases: a non-empty mapping
\* is the very dict the builder fills and returns
SettingsAfterBuild(s, apps) ==
  IF Len(s.user_commands) > 0 THEN [s EXCEPT !.user_commands = apps] ELSE s

\* the settings, with the defaults get_app_aliases and _build_app_aliases
\* take for the catalog filters
BaseSettings(aliases, user_commands, terminate_all, disabled) ==
  [thresh |-> Pct(85), aliases |-> aliases, user_commands |-> user_commands,
   terminate_all |-> terminate_all, disable_window_manager |-> disabled,
   skip_categories |-> <<"Settings", "ConsoleOnly", "Building">>, skip_keywords |-> <<>>,
   target_categories |-> <<>>, target_keywords |-> <<>>, blacklist |-> <<>>,
   require_icon |-> TRUE, require_categories |-> TRUE, blocklist |-> <<>>]

\* the settings s with the catalog filters f
WithFilters(s, f) ==
  [s EXCEPT !.require_icon = f.require_icon, !.require_categories = f.require_categories,
            !.blacklist = f.blacklist, !.blocklist = f.blocklist]

\* self.applist = self.get_app_aliases() with settings s: an exception of
\* the catalog leaves self.applist unset and ends initialize
LinuxInitialize(s) ==
  LET g == get_desktop_apps(s, manifests) IN
  /\ installed = g.records
  /\ \E apps \in get_app_aliases(s, g.records) :
       /\ self_settings = SettingsAfterBuild(s, apps)
       /\ self_applist = IF g.exc = None THEN apps ELSE <<>>
       /\ built = IF g.exc = None THEN <<apps>> ELSE <<>>
  /\ op = <<"initialize", g.exc>>
  /\ ctl = NewController

\* MacOSApplicationController.__init__ with settings s
MacInitialize(s, buildOk) ==
  LET g == get_macos_apps(s, manifests) IN
  /\ installed = g.records
  /\ self_settings = s
  /\ ctl = ctl_app_aliases(NewController, s, g.records, buildOk).c
  /\ built = IF buildOk THEN <<ctl_app_aliases(NewController, s, g.records, buildOk).val>>
             ELSE <<>>
  /\ op = <<"initialize", None>>
  /\ self_applist = <<>>

\* no request is being handled
Idle ==
  /\ pc = "idle" /\ msg_name = None /\ msg_app = None /\ env_procs = <<>> /\ env_wins = <<>>
  /\ switch = "False" /\ launch = "True" /\ attempt = 0 /\ unanswered = 0
  /\ events = <<>> /\ ret = None

\* ApplicationLauncherSkill.initialize
InitLinux ==
  /\ platform = "linux"
  /\ manifests \in {<<Dir(LinuxPaths[1], files)>> : files \in {<<>>, <<FirefoxFile>>}}
  /\ \E ta \in BOOLEAN, dis \in BOOLEAN, th \in Thresholds :
       /\ LinuxInitialize([BaseSettings(LinuxAliases, configured, ta, dis) EXCEPT !.thresh = th])
       /\ self_tool \in IF dis THEN {None} ELSE {None, "/usr/bin/wmctrl"}

\* MacApplicationLauncherSkill.initialize and MacOSApplicationController.__init__
InitMac ==
  /\ platform = "mac"
  /\ manifests \in {<<Dir(MacPaths[1], files)>> : files \in {<<>>, <<FirefoxApp>>}}
  /\ \E ta \in BOOLEAN, dis \in BOOLEAN, th \in Thresholds :
       MacInitialize([BaseSettings(MacAliases, configured, ta, dis) EXCEPT !.thresh = th], TRUE)
  /\ self_tool \in {None, "/usr/bin/osascript"}

Init ==
  /\ Idle
  /\ configured \in UserCommandSets
  /\ (InitLinux \/ InitMac)

\* ------------------------------------------------------------------------
\* Actions
\* ------------------------------------------------------------------------

\* the fallback handler of the Linux skill runs on an utterance, with the
\* processes ps running and the windows ws open
HandleFallback ==
  /\ pc = "idle" /\ platform = "linux"
  /\ \E n \in Intents, a \in Apps, ps \in ProcLists,
        ws \in (IF self_tool # None THEN WinLists ELSE {<<>>}) :
     \E wmOk \in (IF n = "close" THEN BOOLEAN ELSE {TRUE}),
        spawnOk \in (IF n = "launch" THEN BOOLEAN ELSE {TRUE}) :
       LET Handled(r) ==
             /\ msg_name' = n /\ msg_app' = a
             /\ env_procs' = ps /\ env_wins' = ws
             /\ events' = r.ev
             /\ ret' = r.ret
             /\ pc' = IF "emit" \in Kinds(r.ev) THEN "emitted" ELSE "returned"
       IN Handled(handle_fallback(n, a, self_applist, self_settings, self_tool, ps, ws,
                                  wmOk, spawnOk))
  /\ UNCHANGED <<config, ctl, switch, launch, attempt, unanswered>>

\* the fallback handler of the macOS skill runs on an utterance
MacHandleFallback ==
  /\ pc = "idle" /\ platform = "mac"
  /\ \E n \in Intents, a \in Apps, ps \in ProcLists :
     \E wmOk \in (IF n = "close" THEN BOOLEAN ELSE {TRUE}),
        spawnOk \in (IF n = "launch" THEN BOOLEAN ELSE {TRUE}) :
       LET Handled(r) ==
             /\ msg_name' = n /\ msg_app' = a
             /\ env_procs' = ps
             /\ events' = r.ev
             /\ ret' = r.ret
             /\ ctl' = r.c
             /\ pc' = IF "emit" \in Kinds(r.ev) THEN "emitted" ELSE "returned"
       IN Handled(mac_handle_fallback(n, a, self_tool, ctl, self_settings, installed, TRUE,
                                      ps, wmOk, spawnOk))
  /\ UNCHANGED <<config, env_wins, switch, launch, attempt, unanswered>>

\* the condition under which handle_async_prompt asks the switch question
AsksSwitch ==
  IF platform = "linux" THEN WindowManagerOn(self_tool, self_settings)
  ELSE ~self_settings.disable_window_manager

\* handle_async_prompt starts: the message is delivered, the locals are set,
\* the user is told the application is running
PromptStart ==
  /\ pc = "emitted"
  /\ switch' = "False" /\ launch' = "True" /\ attempt' = 0 /\ unanswered' = 0
  /\ env_procs' = <<>> /\ env_wins' = <<>>
  /\ events' = Append(events, <<"speak", "already_running", None>>)
  /\ pc' = IF AsksSwitch THEN "switch" ELSE IF AsksLaunch("False") THEN "launch" ELSE "launch_app"
  /\ UNCHANGED <<config, ctl, msg_name, msg_app, ret>>

\* what a "yes" to the switch question does on Linux: win = match_window(app),
\* window_id = win[0][0] if win else None, switch_window(window_id)
SwitchYes(ws, wmOk) ==
  LET Switched(win) == switch_window(IF Len(win) > 0 THEN win[1].id ELSE None, wmOk)
  IN [ev |-> Switched(match_window(msg_app, self_settings, ws)).ev, c |-> ctl]

\* and on macOS: acknowledge if switch_to_app(app) returns True
MacSwitchYes(wmOk) ==
  LET Switched(sw) == [ev |-> sw.ev, c |-> sw.c]
  IN Switched(Acknowledged(ctl_switch_to_app(msg_app, self_tool, ctl, self_settings, installed,
                                             TRUE, wmOk)))

\* the run of unanswered confirm_switch questions after one more response
Silence(resp) == IF resp = None THEN unanswered + 1 ELSE 0

\* one iteration of the switch loop that asks the question
SwitchAsk ==
  /\ pc = "switch" /\ attempt < RetryCap /\ NotAnswered(switch)
  /\ \E resp \in Responses :
       /\ switch' = resp
       /\ unanswered' = Silence(resp)
       /\ IF Confirmed(resp)
          THEN \E ws \in (IF platform = "linux" THEN WinLists ELSE {<<>>}), wmOk \in BOOLEAN :
                 LET Answered(y) ==
                       /\ env_wins' = ws
                       /\ events' = Append(events, <<"ask", "confirm_switch", None>>) \o y.ev
                       /\ ctl' = y.c
                       /\ ret' = "True" /\ pc' = "done" /\ attempt' = attempt
                 IN Answered(IF platform = "linux" THEN SwitchYes(ws, wmOk)
                             ELSE MacSwitchYes(wmOk))
          ELSE /\ events' = Append(events, <<"ask", "confirm_switch", None>>)
               /\ attempt' = attempt + 1
               /\ UNCHANGED <<env_wins, ctl, ret, pc>>
  /\ UNCHANGED <<config, msg_name, msg_app, env_procs, launch>>

\* one iteration of the switch loop that asks nothing
SwitchSkip ==
  /\ pc = "switch" /\ attempt < RetryCap /\ ~NotAnswered(switch)
  /\ attempt' = attempt + 1
  /\ UNCHANGED <<config, ctl, pc, msg_name, msg_app, env_procs, env_wins, switch, launch,
                 unanswered, events, ret>>

\* the switch loop is over
SwitchEnd ==
  /\ pc = "switch" /\ attempt = RetryCap
  /\ pc' = IF AsksLaunch(switch) THEN "launch" ELSE "launch_app"
  /\ attempt' = 0
  /\ UNCHANGED <<config, ctl, msg_name, msg_app, env_procs, env_wins, switch, launch,
                 unanswered, events, ret>>

\* one iteration of the launch loop that asks the question
LaunchAsk ==
  /\ pc = "launch" /\ attempt < RetryCap /\ NotAnswered(launch)
  /\ \E resp \in Responses :
       /\ launch' = resp
       /\ events' = Append(events, <<"ask", "confirm_launch", None>>)
       /\ IF Declined(resp)
          THEN ret' = "True" /\ pc' = "done" /\ attempt' = attempt
          ELSE attempt' = attempt + 1 /\ UNCHANGED <<ret, pc>>
  /\ UNCHANGED <<config, ctl, msg_name, msg_app, env_procs, env_wins, switch, unanswered>>

\* one iteration of the launch loop that asks nothing
LaunchSkip ==
  /\ pc = "launch" /\ attempt < RetryCap /\ ~NotAnswered(launch)
  /\ attempt' = attempt + 1
  /\ UNCHANGED <<config, ctl, pc, msg_name, msg_app, env_procs, env_wins, switch, launch,
                 unanswered, events, ret>>

\* the launch loop is over
LaunchEnd ==
  /\ pc = "launch" /\ attempt = RetryCap
  /\ pc' = "launch_app" /\ attempt' = 0
  /\ UNCHANGED <<config, ctl, msg_name, msg_app, env_procs, env_wins, switch, launch,
                 unanswered, events, ret>>

\* the closing self.launch_app(app) of handle_async_prompt, which returns
\* None unless launch_app raises
PromptLaunch ==
  /\ pc = "launch_app"
  /\ \E spawnOk \in BOOLEAN :
       LET Linux(l) == [ev |-> l.ev, exc |-> l.ret, c |-> ctl]
           Mac(l) == [ev |-> l.ev, exc |-> l.ret, c |-> l.c]
           Launched(l) ==
             /\ events' = events \o l.ev
             /\ ctl' = l.c
             /\ ret' = IF l.exc \in {"True", "False"} THEN None ELSE l.exc
       IN Launched(IF platform = "linux"
                   THEN Linux(launch_app(msg_app, self_applist, self_settings, spawnOk))
                   ELSE Mac(mac_launch_app(msg_app, ctl, self_settings, installed, TRUE,
                                           spawnOk)))
  /\ pc' = "done"
  /\ UNCHANGED <<config, msg_name, msg_app, env_procs, env_wins, switch, launch, attempt,
                 unanswered>>

\* the request is over; the skill waits for the next utterance
Finish ==
  /\ pc \in {"returned", "done"}
  /\ pc' = "idle" /\ msg_name' = None /\ msg_app' = None /\ env_procs' = <<>>
  /\ env_wins' = <<>> /\ switch' = "False" /\ launch' = "True" /\ attempt' = 0
  /\ unanswered' = 0 /\ events' = <<>> /\ ret' = None
  /\ UNCHANGED <<config, ctl>>

Next ==
  \/ HandleFallback
  \/ MacHandleFallback
  \/ PromptStart
  \/ SwitchAsk
  \/ SwitchSkip
  \/ SwitchEnd
  \/ LaunchAsk
  \/ LaunchSkip
  \/ LaunchEnd
  \/ PromptLaunch
  \/ Finish

Spec == Init /\ [][Next]_vars

\* the handlers run to completion: a delivered message is handled, a blocking
\* ask_yesno() call returns
FairSpec == Spec /\ WF_vars(Next)

\* ------------------------------------------------------------------------
\* The alias index over any disk: construction, then rebuilds
\* ------------------------------------------------------------------------

\* the skill is constructed over any disk, with any catalog filters
BuildInit ==
  /\ Idle
  /\ configured \in BuildCommandSets
  /\ \E f \in FilterSettings :
       \/ /\ platform = "linux"
          /\ manifests \in Disks(LinuxPaths, DesktopFiles)
          /\ f.blocklist = <<>>
          /\ LinuxInitialize(WithFilters(BaseSettings(BuildAliases, configured, FALSE, FALSE), f))
          /\ self_tool = None
       \/ /\ platform = "mac"
          /\ manifests \in Disks(MacPaths, AppBundles)
          /\ f.blacklist = <<>> /\ f.require_icon /\ f.require_categories
          /\ \E buildOk \in BOOLEAN :
               MacInitialize(WithFilters(BaseSettings(BuildAliases, configured, FALSE, FALSE), f),
                             buildOk)
          /\ self_tool = None

\* what no operation on the alias index changes
request ==
  <<pc, msg_name, msg_app, env_procs, env_wins, switch, launch, attempt, unanswered, events, ret>>

\* ApplicationLauncherSkill.get_app_aliases() is called again
GetAppAliases ==
  /\ platform = "linux" /\ Len(built) < MaxBuilds
  /\ LET g == get_desktop_apps(self_settings, manifests) IN
       /\ installed' = g.records
       /\ \E apps \in get_app_aliases(self_settings, g.records) :
            /\ self_settings' = SettingsAfterBuild(self_settings, apps)
            /\ built' = IF g.exc = None THEN Append(built, apps) ELSE built
       /\ op' = <<"get_app_aliases", g.exc>>
  /\ UNCHANGED <<platform, configured, self_tool, manifests, self_applist, ctl, request>>

\* the controller's app_aliases property is read
AppAliases ==
  /\ platform = "mac" /\ (ctl.cache.none => ctl.builds < MaxBuilds)
  /\ \E buildOk \in BOOLEAN :
       LET g == get_macos_apps(self_settings, manifests)
           Read(a) ==
             /\ ctl' = a.c
             /\ built' = IF ctl.cache.none /\ buildOk THEN Append(built, a.val) ELSE built
       IN /\ installed' = IF ctl.cache.none THEN g.records ELSE installed
          /\ Read(ctl_app_aliases(ctl, self_settings, g.records, buildOk))
  /\ op' = <<"app_aliases", None>>
  /\ UNCHANGED <<platform, configured, self_settings, self_tool, manifests, self_applist, request>>

\* the controller's refresh_app_cache() is called
RefreshAppCache ==
  /\ platform = "mac" /\ ctl.builds < MaxBuilds
  /\ ctl' = ctl_refresh_app_cache(ctl)
  /\ op' = <<"refresh_app_cache", None>>
  /\ UNCHANGED <<platform, configured, self_settings, self_tool, manifests, installed,
                 self_applist, built, request>>

\* the macOS skill's refresh_application_cache() is called
RefreshApplicationCache ==
  /\ platform = "mac" /\ ctl.builds < MaxBuilds
  /\ LET r == mac_refresh_application_cache(ctl) IN
       /\ ctl' = r.c
       /\ op' = <<"refresh_application_cache", r.ret>>
  /\ UNCHANGED <<platform, configured, self_settings, self_tool, manifests, installed,
                 self_applist, built, request>>

\* the controller's _ensure_cache_or_rebuild() is called
EnsureCacheOrRebuild ==
  /\ platform = "mac" /\ ctl.builds < MaxBuilds
  /\ \E buildOk \in BOOLEAN :
       LET g == get_macos_apps(self_settings, manifests)
           rebuilds == ctl.failed \/ ctl.cache.none
           Ensured(e) ==
             /\ ctl' = e.c
             /\ built' = IF rebuilds /\ buildOk THEN Append(built, e.c.cache.map) ELSE built
             /\ op' = <<"_ensure_cache_or_rebuild", IF e.val THEN "True" ELSE "False">>
       IN /\ installed' = IF rebuilds THEN g.records ELSE installed
          /\ Ensured(ctl_ensure_cache_or_rebuild(ctl, self_settings, g.records, buildOk))
  /\ UNCHANGED <<platform, configured, self_settings, self_tool, manifests, self_applist, request>>

BuildNext ==
  \/ GetAppAliases
  \/ AppAliases
  \/ RefreshAppCache
  \/ RefreshApplicationCache
  \/ EnsureCacheOrRebuild

BuildSpec == BuildInit /\ [][BuildNext]_vars

\* ------------------------------------------------------------------------
\* Properties: what a request is about and what it has caused
\* ------------------------------------------------------------------------

\* the alias index the running skill matches names against
Index == IF platform = "linux" THEN self_applist ELSE ctl.cache.map

\* the application name of the request scores below the acceptance threshold
\* against every alias of a non-empty index
BelowThreshold ==
  /\ Len(Index) > 0
  /\ \A k \in 1..Len(Index) : fuzzy_match(Title(msg_app), Index[k][1]) < self_settings.thresh

\* the application name of the request resolves to a command
Resolves ==
  \E k \in 1..Len(Index) : fuzzy_match(Title(msg_app), Index[k][1]) >= self_settings.thresh

\* the events of one kind
EventsOf(kind) == {k \in 1..Len(events) : events[k][1] = kind}

\* the times a question has been asked in this request
Asks(question) == {k \in EventsOf("ask") : events[k][2] = question}

\* some event of one of the kinds ended well
Succeeded(kinds) == \E k \in 1..Len(events) : events[k][1] \in kinds /\ events[k][3] = "ok"

\* C1: at the end of a close request whose application name scores below the
\* threshold against every alias, no process was asked to terminate, no
\* window close or application quit was issued, and the handler returned False
C1_BelowThresholdCloseDoesNothing ==
  (pc = "returned" /\ msg_name = "close" /\ BelowThreshold)
    => /\ EventsOf("terminate") = {}
       /\ EventsOf("close_window") = {}
       /\ EventsOf("quit") = {}
       /\ ret = "False"

\* C2: during and after a launch request whose application name scores below
\* the threshold against every alias, no async-prompt message was emitted,
\* nothing was spoken, no question was asked and nothing was spawned
C2_BelowThresholdLaunchDoesNothing ==
  (msg_name = "launch" /\ BelowThreshold)
    => /\ EventsOf("emit") = {}
       /\ EventsOf("speak") = {}
       /\ EventsOf("ask") = {}
       /\ EventsOf("spawn") = {}

\* C3: every key of the configured user_commands is in the alias index and
\* maps to the configured command
C3_UserCommandsWin ==
  \A k \in 1..Len(configured) :
    /\ DictHas(Index, configured[k][1])
    /\ DictGet(Index, configured[k][1]) = configured[k][2]

\* what the process-based close does for this request and these processes
ProcessClose ==
  IF platform = "linux"
  THEN close_by_process(msg_app, self_applist, self_settings, env_procs).ev
  ELSE ctl_close_by_process(msg_app, ctl, self_settings, installed, TRUE, env_procs).ev

\* C4: at the end of a close request with the window manager enabled and
\* available, processes were asked to terminate exactly as the process-based
\* close asks them when no window close (or application quit) succeeded and
\* not at all when one did, and the handler returned True exactly when a
\* window close or a termination succeeded
C4_WindowCloseThenProcessClose ==
  (/\ pc = "returned" /\ msg_name = "close"
   /\ WindowManagerOn(self_tool, self_settings)
   /\ ret \in {"True", "False"})
    => /\ Cardinality(EventsOf("terminate"))
            = IF Succeeded({"close_window", "quit"}) THEN 0
              ELSE Cardinality({k \in 1..Len(ProcessClose) : ProcessClose[k][1] = "terminate"})
       /\ (ret = "True") <=> Succeeded({"close_window", "quit", "terminate"})

\* C5: in a request where the switch question was asked and did not end the
\* flow, every launch_app call comes after a launch question
C5_LaunchQuestionBeforeLaunch ==
  \A k \in EventsOf("launch_app") :
    (\E j \in Asks("confirm_switch") : j < k) => (\E j \in Asks("confirm_launch") : j < k)

\* the windows open at the switch that score best for the application name,
\* the threshold included
BestWindows ==
  {w \in SeqToSet(env_wins) :
     /\ WindowScore(w, msg_app) >= self_settings.thresh
     /\ \A v \in SeqToSet(env_wins) : WindowScore(v, msg_app) <= WindowScore(w, msg_app)}

\* the one activation the "yes" caused: wmctrl -iR on a best-matching window,
\* or on no window at all (and failing) when no window matches; on macOS the
\* AppleScript activate of the application
Activation ==
  IF platform = "linux"
  THEN /\ Cardinality(EventsOf("switch_window")) = 1
       /\ \A k \in EventsOf("switch_window") :
            IF BestWindows = {} THEN events[k][2] = None /\ events[k][3] = "fail"
            ELSE events[k][2] \in {w.id : w \in BestWindows}
  ELSE Cardinality(EventsOf("activate")) = 1

\* C6 (as the spec words it): with the window tool available, a "yes" to the
\* switch question ends the flow with an activation of a window (or
\* application) requested, no launch question asked and nothing spawned
C6_YesActivatesAWindow ==
  (switch = "yes" /\ self_tool # None)
    => /\ pc = "done"
       /\ \E k \in EventsOf("switch_window") \cup EventsOf("activate") : events[k][2] # None
       /\ Asks("confirm_launch") = {}
       /\ EventsOf("spawn") = {}

\* C6: with the window tool available, a "yes" to the switch question ends
\* the flow with one activation, of a best-matching window when some window
\* matches the application name and of no window otherwise; no launch
\* question is asked, launch_app is not called and nothing is spawned
C6_YesSwitchesAndEnds ==
  (switch = "yes" /\ self_tool # None)
    => /\ pc = "done"
       /\ Activation
       /\ Asks("confirm_launch") = {}
       /\ EventsOf("launch_app") = {}
       /\ EventsOf("spawn") = {}

\* a "yes" that activated the better of two windows that both match
C6_Witness ==
  /\ switch = "yes" /\ self_tool # None /\ pc = "done"
  /\ Len(env_wins) = 2 /\ Cardinality(BestWindows) = 1
  /\ \E w \in SeqToSet(env_wins) :
       w \notin BestWindows /\ WindowScore(w, msg_app) >= self_settings.thresh
  /\ Succeeded({"switch_window"})

\* the application of the request is running, as the skill sees it
Running ==
  IF platform = "linux"
  THEN is_running(msg_app, self_applist, self_settings, self_tool, env_procs, env_wins).ret
  ELSE ctl_is_running(msg_app, ctl, self_settings, installed, TRUE, env_procs).ret

\* C7: when the fallback handler has handled a launch request for an
\* application that resolves and is not running, it has returned without an
\* async-prompt message, with exactly one spawn, of the resolved command;
\* nothing was spoken and no question was asked
C7_LaunchDirect ==
  (pc \in {"returned", "emitted"} /\ msg_name = "launch" /\ Resolves /\ Running = "False")
    => /\ pc = "returned"
       /\ Cardinality(EventsOf("spawn")) = 1
       /\ \A k \in EventsOf("spawn") :
            DictHas(Index, Title(msg_app)) => events[k][2] = DictGet(Index, Title(msg_app))
       /\ EventsOf("emit") = {}
       /\ EventsOf("speak") = {}
       /\ EventsOf("ask") = {}

\* a direct launch while other processes are running
C7_Witness ==
  /\ pc = "returned" /\ msg_name = "launch" /\ Resolves /\ Running = "False"
  /\ env_procs # <<>>
  /\ Succeeded({"spawn"})

\* the last time the switch question was asked (0: never)
LastSwitchAsk ==
  IF Asks("confirm_switch") = {} THEN 0
  ELSE CHOOSE k \in Asks("confirm_switch") : \A j \in Asks("confirm_switch") : j <= k

\* C8: once the switch question has gone unanswered RetryCap (5) times in a
\* row, it has been asked exactly 5 times, its loop is over, and what the
\* flow does next is ask the launch question: either nothing has happened
\* since and the launch loop is about to ask, or the event after the last
\* switch question is the launch question
C8_SilenceFallsThroughToLaunchQuestion ==
  (unanswered = RetryCap)
    => /\ Cardinality(Asks("confirm_switch")) = RetryCap
       /\ pc = "switch" => (attempt = RetryCap /\ AsksLaunch(switch))
       /\ IF LastSwitchAsk = Len(events)
          THEN /\ pc \in {"switch", "launch"}
               /\ pc = "launch" => (attempt = 0 /\ NotAnswered(launch))
          ELSE (LastSwitchAsk + 1) \in Asks("confirm_launch")

\* five silences, then the launch question
C8_Witness ==
  /\ unanswered = RetryCap
  /\ Cardinality(Asks("confirm_switch")) = RetryCap
  /\ Asks("confirm_launch") # {}

\* how far the confirmation flow is from its end: the phases still to come
\* and the iterations left in the running loop
Phase ==
  CASE pc = "emitted" -> 4
    [] pc = "switch" -> 3
    [] pc = "launch" -> 2
    [] pc = "launch_app" -> 1
    [] OTHER -> 0

Rank == Phase * (RetryCap + 1) + (IF pc \in {"switch", "launch"} THEN RetryCap - attempt ELSE 0)

\* C9: whatever the responses, each question is asked at most RetryCap (5)
\* times; the loop counter stays within the loop's range (so a flow that is
\* not over has a step to take) and every step of the flow brings its end
\* nearer, so it ends within a bounded number of steps; a question that got
\* "yes" or "no" is not asked again
C9_FlowIsBounded ==
  /\ [](/\ Cardinality(Asks("confirm_switch")) <= RetryCap
        /\ Cardinality(Asks("confirm_launch")) <= RetryCap
        /\ attempt \in 0..RetryCap
        /\ Rank >= 0)
  /\ [][/\ pc \in {"emitted", "switch", "launch", "launch_app"} => Rank' < Rank
        /\ (pc # "idle" /\ switch \in {"yes", "no"})
             => Cardinality(Asks("confirm_switch")') <= Cardinality(Asks("confirm_switch"))
        /\ (pc # "idle" /\ launch \in {"yes", "no"})
             => Cardinality(Asks("confirm_launch")') <= Cardinality(Asks("confirm_launch"))]_vars

\* both questions asked as often as they can be, and the flow over
C9_Witness ==
  /\ pc = "done"
  /\ Cardinality(Asks("confirm_switch")) = RetryCap
  /\ Cardinality(Asks("confirm_launch")) = RetryCap

\* C10: a "no" to the launch question ends the flow at that question, with
\* launch_app not called and nothing spawned; a flow that asked the launch
\* question and ended otherwise called launch_app exactly once, after the
\* last question, and spawned at most once
C10_LaunchQuestionDecides ==
  /\ launch = "no"
       => /\ pc = "done"
          /\ Len(events) \in Asks("confirm_launch")
          /\ EventsOf("launch_app") = {}
          /\ EventsOf("spawn") = {}
  /\ (pc = "done" /\ Asks("confirm_launch") # {} /\ launch # "no")
       => /\ Cardinality(EventsOf("launch_app")) = 1
          /\ \A k \in EventsOf("launch_app") : \A j \in EventsOf("ask") : j < k
          /\ Cardinality(EventsOf("spawn")) <= 1
  /\ (pc = "launch" /\ attempt = RetryCap) => launch # "no"

\* a launch question answered "yes" and one that ran out of attempts, both
\* followed by the launch; this one ran out
C10_Witness ==
  /\ pc = "done"
  /\ Cardinality(Asks("confirm_launch")) = RetryCap
  /\ launch \notin {"yes", "no"}
  /\ Succeeded({"spawn"})

\* the command match_one picks for the application name of the request
\* (None when there is nothing to pick from, or, on macOS, when the pick
\* scores below the threshold)
BestCommand ==
  LET Picked(m) ==
        IF m.exc # None THEN None
        ELSE IF platform = "mac" /\ m.score < self_settings.thresh THEN None
        ELSE m.cmd
  IN Picked(match_one(Title(msg_app), Index))

\* the running processes named like the executable basename of that command
Matching ==
  LET Named(cmd) ==
        IF cmd = None THEN {}
        ELSE IF platform = "linux"
             THEN {p \in SeqToSet(env_procs) :
                     /\ p.status = "running"
                     /\ fuzzy_match(SplitLast(SplitFirst(cmd, " "), "/"), p.name) > ProcessBar}
             ELSE {p \in SeqToSet(env_procs) :
                     /\ p.status = "running"
                     /\ \/ fuzzy_match(ProcessName(cmd), p.name) > MacProcessBar
                        \/ fuzzy_match(BundleName(cmd), p.name) > MacProcessBar}
  IN Named(BestCommand)

\* the processes that have exited since they were listed
Exited == {p \in SeqToSet(env_procs) : p.status = "NoSuchProcess"}

\* the processes the process-based close is after: the matching ones that
\* process matching yields, those newer than every process that has exited
Targets == {p \in Matching : \A q \in Exited : q.create_time < p.create_time}

\* C11: at the end of a close request handled without the window manager
\* (tool absent, or disabled in the settings) no window-tool command was
\* issued; only processes named like the executable basename of the resolved
\* command were asked to terminate, and one was asked if there is one; the
\* handler's result is that of the process termination: True only when a
\* termination succeeded, False only when none did
C11_CloseWithoutWindowTool ==
  (pc = "returned" /\ msg_name = "close" /\ ~WindowManagerOn(self_tool, self_settings))
    => /\ EventsOf("close_window") \cup EventsOf("quit") = {}
       /\ EventsOf("switch_window") \cup EventsOf("activate") = {}
       /\ \A k \in EventsOf("terminate") : events[k][2] \in {p.pid : p \in Targets}
       /\ Targets # {} => EventsOf("terminate") # {}
       /\ ret = "True" => Succeeded({"terminate"})
       /\ ret = "False" => ~Succeeded({"terminate"})

\* "close calculator" with calculator configured as kcalc, no window tool,
\* kcalc running: it is terminated
C11_Witness ==
  /\ pc = "returned" /\ msg_name = "close" /\ self_tool = None
  /\ msg_app = "calculator" /\ BestCommand = "kcalc"
  /\ Targets # {}
  /\ Succeeded({"terminate"})

\* ------------------------------------------------------------------------
\* Properties of the alias index and of the catalog
\* ------------------------------------------------------------------------

\* the keys, shorter than 3 or longer than 20 characters, of a mapping
OutOfRange(apps) == {k \in DictKeys(apps) : Len(k) < 3 \/ Len(k) > 20}

\* C12: after any build of the alias index, whatever the manifests and the
\* configuration (aliases, user commands, K-to-C aliases), every key of the
\* index is 3 to 20 characters long
C12_KeysWithinLength ==
  \A i \in 1..Len(built) : OutOfRange(built[i]) = {}

\* the pids of the zombie processes the handler saw
Zombies == {env_procs[k].pid : k \in {j \in 1..Len(env_procs) : env_procs[j].status = "zombie"}}

\* C13: a zombie process is never matched, whatever its name: it is never
\* asked to terminate, and a launch request that finds only zombie processes
\* and no window does not take the application for running
C13_ZombiesAreLeftAlone ==
  pc \in {"returned", "emitted"} =>
    /\ \A k \in EventsOf("terminate") : events[k][2] \notin Zombies
    /\ (msg_name = "launch" /\ env_wins = <<>> /\ Cardinality(Zombies) = Len(env_procs))
         => pc = "returned" /\ Asks("confirm_switch") = {} /\ EventsOf("emit") = {}

\* a close request for "firefox" runs while a zombie named "firefox" and a
\* live process are there, and terminates the live one
C13_Witness ==
  /\ pc = "returned" /\ msg_name = "close" /\ msg_app = "firefox"
  /\ BestCommand = "firefox"
  /\ \E k \in 1..Len(env_procs) :
       env_procs[k].name = "firefox" /\ env_procs[k].status = "zombie"
  /\ EventsOf("terminate") # {}

\* the operations that read the app_aliases property
Reads == {"app_aliases", "_ensure_cache_or_rebuild"}

\* C14: on the macOS controller, over any sequence of reads of app_aliases
\* (direct, or made by _ensure_cache_or_rebuild) and calls of
\* refresh_app_cache, the alias builder runs exactly at a read
\* made while no built mapping is held: construction runs it once, a read
\* with a mapping held returns that mapping, a refresh drops the mapping held
\* and the next read runs the builder once
C14_BuildsOnlyWhenNothingHeld ==
  /\ [](platform = "mac" /\ op[1] = "initialize" => ctl.builds = 1)
  /\ [][platform = "mac" =>
          /\ ctl'.builds # ctl.builds
               => op'[1] \in Reads /\ ctl.cache.none /\ ctl'.builds = ctl.builds + 1
          /\ (op'[1] \in Reads /\ ctl.cache.none) => ctl'.builds = ctl.builds + 1
          /\ (op'[1] \in Reads /\ ~ctl.cache.none) => ctl'.cache = ctl.cache
          /\ op'[1] = "refresh_app_cache" => ctl'.cache.none]_vars

\* a read after a refresh has built the mapping a second time
C14_Witness ==
  /\ platform = "mac" /\ op[1] = "app_aliases"
  /\ ctl.builds = 2 /\ Len(built) = 2 /\ ~ctl.cache.none
  /\ Len(ctl.cache.map) > 0

\* C15: refresh_application_cache() of the macOS skill returns True when the
\* cache was refreshed, and False only when the refresh failed; the refresh
\* (refresh_app_cache) raises nothing, so every call returns True
C15_RefreshReturnsTrue ==
  op[1] = "refresh_application_cache" => op[2] = "True"

\* the mappings a and b hold the same keys with the same values
SameMapping(a, b) ==
  /\ DictKeys(a) = DictKeys(b)
  /\ \A k \in DictKeys(a) : DictGet(a, k) = DictGet(b, k)

\* C16: with the manifests and the configuration unchanged, a build of the
\* alias index yields the mapping the build before it yielded
C16_RebuildYieldsSameMapping ==
  \A i \in 1..Len(built) - 1 : SameMapping(built[i], built[i + 1])

\* the index has been built twice over a disk with an application, with user
\* commands configured
C16_Witness ==
  /\ Len(built) >= 2 /\ Len(configured) > 0 /\ Len(installed) > 0
  /\ Len(built[2]) > Len(configured)

\* the entry parse_desktop_file reads from a file
EntryOf(f) == parse_desktop_file(f).data

AtThreshold ==
  /\ \E k \in 1..Len(Index) : fuzzy_match(Title(msg_app), Index[k][1]) = self_settings.thresh
  /\ \A k \in 1..Len(Index) : fuzzy_match(Title(msg_app), Index[k][1]) <= self_settings.thresh

\* the windows a handler asked the window tool to close
ClosedWindows == {events[k][2] : k \in EventsOf("close_window")}

\* C18: a score equal to the threshold is accepted and a score below it is
\* rejected: a launch request that enters launch_app spawns when the
\* best alias scores exactly the threshold, no launch request spawns when
\* every alias scores below it, and a close request with the window tool
\* closes a window whose score is exactly the threshold and none below it
C18_ThresholdIsInclusive ==
  /\ (msg_name = "launch" /\ EventsOf("launch_app") # {} /\ AtThreshold)
       => EventsOf("spawn") # {}
  /\ (msg_name = "launch" /\ BelowThreshold) => EventsOf("spawn") = {}
  /\ (/\ msg_name = "close" /\ pc = "returned" /\ platform = "linux"
      /\ WindowManagerOn(self_tool, self_settings))
       => /\ \A w \in SeqToSet(env_wins) :
               w.id \in ClosedWindows => WindowScore(w, msg_app) >= self_settings.thresh
          /\ (\E w \in SeqToSet(env_wins) : WindowScore(w, msg_app) = self_settings.thresh)
               => ClosedWindows # {}

\* with thresh 1.0 a launch request scores exactly 1.0 and spawns
C18_Witness ==
  /\ msg_name = "launch" /\ pc = "returned" /\ AtThreshold
  /\ self_settings.thresh = Pct(100)
  /\ Succeeded({"spawn"})

\* C19: launch_app raises nothing, whatever the name, the index (an empty
\* one included) and the outcome of the spawn: a request in which launch_app
\* was entered ends without an exception, launch_app having returned True or
\* False, and False when no alias matched or the spawn failed
C19_LaunchAppReturnsBoolean ==
  (EventsOf("launch_app") # {} /\ pc \in {"returned", "done"})
    => /\ ret \in {"True", "False", None}
       /\ (pc = "returned" /\ ~Succeeded({"spawn"})) => ret = "False"

\* the manifests of the disk from which a record can be made: a .desktop
\* entry that parses and has Exec, Name and Type=Application; a bundle whose
\* Info.plist is there and is not an array
Sound(f) ==
  IF platform = "linux"
  THEN /\ f.parse = "ok"
       /\ DictHas(f.entry, "Exec") /\ DictHas(f.entry, "Name")
  ELSE f.plist \in {"ok", "malformed"}

\* the catalog of the disk without its bad inputs
Remaining ==
  [d \in 1..Len(manifests) |->
     IF manifests[d].state = "denied" THEN [manifests[d] EXCEPT !.state = "absent"]
     ELSE [manifests[d] EXCEPT !.files = SelectSeq(manifests[d].files, Sound)]]

\* C20: a manifest that cannot be read or parsed, a manifest with a launch
\* command and no name, and a search directory that cannot be listed do not
\* end the catalog build: it raises nothing, the construction goes through,
\* and the records yielded are those of the disk without the bad input
C20_BadInputIsSkipped ==
  op[1] \in {"initialize", "get_app_aliases"} =>
    /\ op[2] = None
    /\ installed = IF platform = "linux" THEN get_desktop_apps(self_settings, Remaining).records
                   ELSE get_macos_apps(self_settings, Remaining).records

\* ------------------------------------------------------------------------
\* Properties of process termination and of window matching
\* ------------------------------------------------------------------------

\* the termination requests of the request, in order
TerminateLog == SelectSeq(events, LAMBDA e : e[1] = "terminate")

\* the i-th newest of the targets
NthTarget(i) ==
  CHOOSE p \in Targets :
    Cardinality({q \in Targets : q.create_time > p.create_time}) = i - 1

\* C21 (as the spec words it): with terminate_all false, a close request
\* that asks processes to terminate asks exactly one, the most recently
\* created matching process that is no zombie
C21_OneRequestToTheNewest ==
  (/\ pc = "returned" /\ msg_name = "close" /\ ~self_settings.terminate_all
   /\ Len(TerminateLog) > 0)
    => Len(TerminateLog) = 1 /\ TerminateLog[1][2] = NthTarget(1).pid

\* C21: with terminate_all false, the termination requests go to the
\* matching processes that are no zombies, newest first, up to and including
\* the first request that succeeds: every request but the last has failed,
\* and after a last request that failed no matching process is left
C21_RequestsUntilOneSucceeds ==
  (/\ pc = "returned" /\ msg_name = "close" /\ ~self_settings.terminate_all
   /\ Len(TerminateLog) > 0)
    => /\ Len(TerminateLog) <= Cardinality(Targets)
       /\ \A i \in 1..Len(TerminateLog) : TerminateLog[i][2] = NthTarget(i).pid
       /\ \A i \in 1..Len(TerminateLog) - 1 : TerminateLog[i][3] # "ok"
       /\ TerminateLog[Len(TerminateLog)][3] # "ok" => Len(TerminateLog) = Cardinality(Targets)

\* the newest "firefox" process denies the request and the one before it is
\* terminated
C21_Witness ==
  /\ pc = "returned" /\ msg_name = "close" /\ ~self_settings.terminate_all
  /\ Cardinality(Targets) = 2
  /\ Len(TerminateLog) = 2
  /\ TerminateLog[1][3] = "AccessDenied" /\ TerminateLog[2][3] = "ok"
  /\ ret = "True"


\* the pids a handler asked to terminate
Asked == {events[k][2] : k \in EventsOf("terminate")}

\* C22: with terminate_all true, at the end of a close request resolved by
\* process termination every running process named like the executable
\* basename was asked to terminate, whatever became of the other requests,
\* and the handler returned True exactly when a request succeeded
C22_EveryMatchIsAsked ==
  (/\ pc = "returned" /\ msg_name = "close" /\ self_settings.terminate_all
   /\ ~WindowManagerOn(self_tool, self_settings))
    => /\ \A p \in Matching : p.pid \in Asked
       /\ (ret = "True") <=> Succeeded({"terminate"})


\* C28: when a listed process has exited before its status is read or before
\* it is asked to terminate, a request whose name resolves to a command
\* still ends in True or False; a close with terminate_all resolved by
\* process termination asks every running process of that name, and a launch
\* finds the application running when such a process exists
C28_ExitedProcessesAreSkipped ==
  (/\ pc \in {"returned", "emitted"} /\ BestCommand # None
   /\ \E k \in 1..Len(env_procs) : "NoSuchProcess" \in {env_procs[k].status, env_procs[k].term})
    => /\ ret \in {"True", "False"}
       /\ (/\ msg_name = "close" /\ self_settings.terminate_all
           /\ ~WindowManagerOn(self_tool, self_settings))
            => \A p \in Matching : p.pid \in Asked
       /\ (msg_name = "launch" /\ Matching # {}) => pc = "emitted"


\* the windows match_window is given, in their listed order, that score best
ListedBest ==
  SelectSeq(get_window_process_mapping(env_wins), LAMBDA w : w \in BestWindows)

\* the window ids a handler asked the window tool to close, in order
CloseLog ==
  LET Closes == SelectSeq(events, LAMBDA e : e[1] = "close_window")
  IN [k \in 1..Len(Closes) |-> Closes[k][2]]

\* C23: for the windows and the application name of any request,
\* match_window returns the windows whose score is the largest of all and at
\* least the threshold, in their listed order, and no window when none
\* reaches the threshold; a close with terminate_all through the window tool
\* closes those windows in that order
C23_BestWindowsInListedOrder ==
  pc # "idle"
    => /\ match_window(msg_app, self_settings, env_wins) = ListedBest
       /\ BestWindows = {} => match_window(msg_app, self_settings, env_wins) = <<>>
       /\ (/\ pc = "returned" /\ msg_name = "close" /\ platform = "linux"
           /\ WindowManagerOn(self_tool, self_settings) /\ self_settings.terminate_all)
            => CloseLog = [k \in 1..Len(ListedBest) |-> ListedBest[k].id]

\* two windows above the threshold, the better one alone is closed
C23_Witness ==
  /\ pc = "returned" /\ msg_name = "close" /\ platform = "linux"
  /\ WindowManagerOn(self_tool, self_settings) /\ self_settings.terminate_all
  /\ Len(env_wins) = 2
  /\ \A k \in 1..2 : WindowScore(env_wins[k], msg_app) >= self_settings.thresh
  /\ WindowScore(env_wins[1], msg_app) # WindowScore(env_wins[2], msg_app)
  /\ Len(CloseLog) = 1


\* C24: in the flow for an application that is already running the switch
\* question is asked only with window management available (the window tool
\* present and not disabled in the settings); without it no switch question
\* is asked and the first question is the launch question, which a flow that
\* has ended has asked
C24_SwitchQuestionNeedsWindowManager ==
  /\ Asks("confirm_switch") # {} => WindowManagerOn(self_tool, self_settings)
  /\ ~WindowManagerOn(self_tool, self_settings)
       => /\ \A k \in EventsOf("ask") : events[k][2] = "confirm_launch"
          /\ pc = "done" => Asks("confirm_launch") # {}


\* the normalized identity of a catalog record: its name in lower case
Identity(record) ==
  IF platform = "linux" THEN Lower(record.Names[1]) ELSE Lower(record.name)

\* C25: the records one build of the catalog yields have different
\* identities: an application found in several search paths is yielded once
C25_NoTwoRecordsShareAnIdentity ==
  \A i, j \in 1..Len(installed) :
    i # j => Identity(installed[i]) # Identity(installed[j])


\* a step of the controller in which _build_app_aliases ran and returned
BuildSucceeded == ctl'.builds = ctl.builds + 1 /\ Len(built') = Len(built) + 1

\* a step of the controller in which _build_app_aliases ran and raised
BuildFailed == ctl'.builds = ctl.builds + 1 /\ built' = built

\* a step that invalidated the cache and built nothing
Invalidated == op'[1] \in {"refresh_app_cache", "refresh_application_cache"}

\* C26: on macOS the build-failed flag is never set while a mapping is held;
\* after construction is_cache_valid() tells whether that build succeeded;
\* a step in which a build succeeds leaves it true, a step in which a build
\* fails or the cache is invalidated leaves it false, and any other step
\* leaves it as it was
C26_ValidityTracksBuilds ==
  /\ [](platform = "mac" => ~(ctl.failed /\ ~ctl.cache.none))
  /\ [](platform = "mac" /\ op[1] = "initialize"
          => (ctl_is_cache_valid(ctl) <=> Len(built) = 1))
  /\ [][platform = "mac" =>
          /\ BuildSucceeded => ctl_is_cache_valid(ctl')
          /\ BuildFailed => ~ctl_is_cache_valid(ctl')
          /\ Invalidated => ~ctl_is_cache_valid(ctl')
          /\ ~(BuildSucceeded \/ BuildFailed \/ Invalidated)
               => (ctl_is_cache_valid(ctl') <=> ctl_is_cache_valid(ctl))]_vars

\* a rebuild after a refresh succeeded and found no application: the cache
\* is valid and empty
C26_Witness ==
  /\ platform = "mac" /\ op[1] \in {"app_aliases", "_ensure_cache_or_rebuild"}
  /\ ctl.builds >= 2 /\ Len(built) >= 1
  /\ ctl_is_cache_valid(ctl) /\ ctl.cache.map = <<>>


\* the launch command a catalog record carries: the manifest's Exec on
\* Linux, the bundle's path on macOS
Command(record) == IF platform = "linux" THEN record.Exec ELSE record.path

\* the canonical name of a catalog record
Canonical(record) == IF platform = "linux" THEN record.Names[1] ELSE record.name

\* the commands the configuration gives
UserCommands == {configured[k][2] : k \in 1..Len(configured)}

\* C27: after a build of the alias index that ended without an exception,
\* every value of the index is the launch command of a discovered record,
\* as its manifest gives it, or a command of the configuration; and the
\* name of every record, when 3 to 20 characters long and not a key of the
\* configuration, is a key that maps to the command of a record of that name
C27_AliasesMapToTheLaunchCommand ==
  (Len(built) > 0 /\ op[2] \in {None, "True", "False"})
    => LET apps == built[Len(built)] IN
       /\ \A k \in 1..Len(apps) :
            apps[k][2] \in {Command(r) : r \in SeqToSet(installed)} \cup UserCommands
       /\ \A r \in SeqToSet(installed) :
            (/\ Len(Canonical(r)) \in 3..20
             /\ ~DictHas(configured, Canonical(r)))
              => /\ DictHas(apps, Canonical(r))
                 /\ DictGet(apps, Canonical(r))
                      \in {Command(q) : q \in {p \in SeqToSet(installed) :
                                                 Canonical(p) = Canonical(r)}}


\* C29: a build of the alias index leaves the configuration as it was: in
\* every state the user_commands of the settings hold the keys and values
\* that were configured (a mapping the builder shared with the settings and
\* filled would show here as a change of the settings)
C29_BuildLeavesConfigurationUnchanged ==
  self_settings.user_commands = configured


\* the 'already running' notifications of this request
Notices == {k \in EventsOf("speak") : events[k][2] = "already_running"}

\* C30: in a request that found the application running, the fallback
\* handler has only emitted the prompt event and returned True, asking
\* nothing; in the flow that follows the notification is spoken once, before
\* any question; every switch question comes before every launch question;
\* at most one process is spawned, after every question; and a request
\* that did not find the application running asks and notifies nothing
C30_FlowEventsAreOrdered ==
  /\ pc = "emitted" => events = <<<<"emit", msg_app, None>>>> /\ ret = "True"
  /\ pc = "returned" => EventsOf("ask") \cup EventsOf("speak") \cup EventsOf("emit") = {}
  /\ pc \in {"switch", "launch", "launch_app", "done"}
       => /\ Cardinality(Notices) = 1
          /\ events[1] = <<"emit", msg_app, None>>
          /\ Cardinality(EventsOf("emit")) = 1
          /\ \A n \in Notices : \A k \in EventsOf("ask") : n < k
  /\ \A j \in Asks("confirm_switch") : \A k \in Asks("confirm_launch") : j < k
  /\ Cardinality(EventsOf("spawn")) <= 1
  /\ pc # "returned" => \A s \in EventsOf("spawn") : \A k \in EventsOf("ask") : k < s

\* both questions were asked and the application was then spawned
C30_Witness ==
  /\ pc = "done"
  /\ Cardinality(Asks("confirm_switch")) > 1 /\ Asks("confirm_launch") # {}
  /\ Succeeded({"spawn"})

====
